---- MODULE Spec2Model ----
(***************************************************************************)
(* A model of the regex_engine crate: a pattern is validated, desugared,   *)
(* turned into an NFA (Thompson or Glushkov construction), determinised,   *)
(* minimised by partition refinement, and the resulting DFA is run by the   *)
(* three executors (exact match, first match, all matches).                *)
(*                                                                         *)
(* Characters are one-character strings.  Indices that the Rust code       *)
(* counts from 0 are counted from 0 here too (see At).  Every iteration    *)
(* over a HashMap or HashSet whose order can change the outcome is a       *)
(* nondeterministic choice.                                                *)
(***************************************************************************)
EXTENDS Integers, Sequences, FiniteSets, TLC

(* ------------------------------ bounds -------------------------------- *)

\* Longest pattern handed to Regex::new.
MaxPatLen == 4

\* Longest pattern for which one run builds a Regex of each construction type.
MaxPairPatLen == 3

\* Longest text handed to the executors.
MaxTextLen == 2

\* Longest word over which two languages are compared.
MaxWordLen == 4

\* Longest pattern with a '.' handed to Regex::new.
MaxDotPatLen == 2

(* ---------------------------- characters ------------------------------ *)

\* A character outside ASCII: char::len_utf8 is 2 for it, 1 for the others.
NonAscii == "U+00E9"

\* The characters patterns are drawn from (all ASCII).
PatternAlphabet == {"a", "b", "(", ")", "|", "*", "+", "?", "\\"}

\* The characters texts are drawn from.
TextAlphabet == {"a", "b", NonAscii}

\* All sequences over S of length at most n.
SeqsUpTo(S, n) == UNION {[1..k -> S] : k \in 0..n}

Patterns == SeqsUpTo(PatternAlphabet, MaxPatLen)

Texts == SeqsUpTo(TextAlphabet, MaxTextLen)

\* The patterns a run goes through one after the other: pairs of patterns
\* of one language.
CanonPatterns ==
    {<<"a", "|", "(", ")">>, <<"(", "a", "|", ")">>,
     <<"a", "*">>, <<"a", "*", "a", "*">>,
     <<"a", "*", "b">>, <<"a", "*", "a", "*", "b">>,
     <<"a", "a", "b", "|", "a">>, <<"a", "|", "a", "a", "b">>}

\* The patterns of the runs that are about '.'.
DotPatterns == SeqsUpTo({".", "a", "*"}, MaxDotPatLen)

\* The element of a Rust sequence at a 0-based index.
At(s, i) == s[i + 1]

\* s[from..] of a Rust sequence, from a 0-based index.
Tail0(s, from) == SubSeq(s, from + 1, Len(s))

\* String::insert / Vec::insert at a 0-based index.
InsertAt(s, idx, c) == SubSeq(s, 1, idx) \o <<c>> \o SubSeq(s, idx + 1, Len(s))

\* char::len_utf8
len_utf8(c) == IF c = NonAscii THEN 2 ELSE 1

(* ------------------------- lib.rs: validator --------------------------- *)

RECURSIVE ValidScan(_, _, _, _)
\* The while loop of is_valid_regex from character i on.
ValidScan(regex, i, open_paren_count, last_was_quantifier) ==
    IF i >= Len(regex) THEN open_paren_count = 0
    ELSE LET c == At(regex, i) IN
         CASE c = "(" -> ValidScan(regex, i + 1, open_paren_count + 1, TRUE)
           [] c = ")" -> IF open_paren_count = 0 THEN FALSE
                         ELSE ValidScan(regex, i + 1, open_paren_count - 1, FALSE)
           [] c \in {"*", "+"} -> IF last_was_quantifier THEN FALSE
                                  ELSE ValidScan(regex, i + 1, open_paren_count, TRUE)
           [] c = "\\" -> IF i + 1 >= Len(regex) THEN FALSE
                          ELSE ValidScan(regex, i + 2, open_paren_count, FALSE)
           [] OTHER -> ValidScan(regex, i + 1, open_paren_count, FALSE)

is_valid_regex(regex) ==
    IF Len(regex) = 0 THEN FALSE ELSE ValidScan(regex, 0, 0, TRUE)

(* ------------------------- lib.rs: desugarer --------------------------- *)

\* The character '`' (a string of this notation cannot hold it).
Backtick == "U+0060"

\* The string normalise_regex pushes for an unescaped '.'.
DotExpansion == <<
    "(", "a", "|", "b", "|", "c", "|", "d", "|", "e", "|", "f", "|", "g", "|", "h", "|", "i",
    "|", "j", "|", "k", "|", "l", "|", "m", "|", "n", "|", "o", "|", "p", "|", "q", "|", "r",
    "|", "s", "|", "t", "|", "u", "|", "v", "|", "w", "|", "x", "|", "y", "|", "z", "|", "A",
    "|", "B", "|", "C", "|", "D", "|", "E", "|", "F", "|", "G", "|", "H", "|", "I", "|", "J",
    "|", "K", "|", "L", "|", "M", "|", "N", "|", "O", "|", "P", "|", "Q", "|", "R", "|", "S",
    "|", "T", "|", "U", "|", "V", "|", "W", "|", "X", "|", "Y", "|", "Z", "|", "0", "|", "1",
    "|", "2", "|", "3", "|", "4", "|", "5", "|", "6", "|", "7", "|", "8", "|", "9", "|", " ",
    "|", "!", "|", "\"", "|", "#", "|", "$", "|", "%", "|", "&", "|", "'", "|", "\\", "(", "|",
    "\\", ")", "|", "\\", "*", "|", "\\", "+", "|", ",", "|", "-", "|", ".", "|", "/", "|",
    ":", "|", ";", "|", "<", "|", "=", "|", ">", "|", "?", "|", "@", "|", "[", "|", "\\", "\\",
    "|", "]", "|", "^", "|", "_", "|", Backtick, "|", "{", "|", "}", "|", "~", ")"
    >>

\* The characters the runs on '.' are about: one that DotExpansion holds
\* as it is, one it holds escaped, '.' itself and '|'.
DotAlphabet == {"a", "*", ".", "|"}

RECURSIVE RestrictDotExpansion(_, _)
\* DotExpansion from the alternative at index i on, cut to the alternatives
\* whose character is in DotAlphabet (kept holds those found so far).
RestrictDotExpansion(i, kept) ==
    LET alternative == IF At(DotExpansion, i) = "\\"
                       THEN <<"\\", At(DotExpansion, i + 1)>>
                       ELSE <<At(DotExpansion, i)>>
        next == i + Len(alternative)
        kept_now == IF alternative[Len(alternative)] \notin DotAlphabet THEN kept
                    ELSE IF kept = <<>> THEN alternative
                    ELSE kept \o <<"|">> \o alternative
    IN  IF At(DotExpansion, next) = ")" THEN <<"(">> \o kept_now \o <<")">>
        ELSE RestrictDotExpansion(next + 1, kept_now)

\* What the model pushes for an unescaped '.': the alternatives of
\* DotExpansion for the characters of DotAlphabet, in the order and with the
\* escapes of the source string.
ModelDotExpansion == RestrictDotExpansion(1, <<>>)

\* prev_char before the first character ('\0').
Nul == "NUL"

RECURSIVE FindGroupStart(_, _, _)
\* The backwards scan `for j in (0..normalised.len()).rev()` from index j with
\* the given balance: the index of the '(' that brings the balance back to 0,
\* or -1 when the scan runs out.  It does not look at escapes.
FindGroupStart(normalised, j, balance) ==
    IF j < 0 THEN -1
    ELSE LET ch == At(normalised, j) IN
         IF ch = ")" THEN FindGroupStart(normalised, j - 1, balance + 1)
         ELSE IF ch = "(" THEN
              IF balance - 1 = 0 THEN j
              ELSE FindGroupStart(normalised, j - 1, balance - 1)
         ELSE FindGroupStart(normalised, j - 1, balance)

\* One iteration of the for loop of normalise_regex.  panicked is set when
\* `normalised.len() - 1` underflows (the insert before a '?' at the start).
NormaliseChar(st, curr_char) ==
    IF st.escape_sequence THEN
        [st EXCEPT !.normalised = Append(@, curr_char),
                   !.escape_sequence = FALSE,
                   !.prev_char = curr_char]
    ELSE IF curr_char = "\\" THEN
        [st EXCEPT !.normalised = Append(@, curr_char), !.escape_sequence = TRUE]
    ELSE IF curr_char = "+" THEN
        LET found == FindGroupStart(st.normalised, Len(st.normalised) - 1, 0)
            group_start == IF found < 0 THEN 0 ELSE found
            pushed == IF st.prev_char = ")"
                      THEN st.normalised \o Tail0(st.normalised, group_start)
                      ELSE Append(st.normalised, st.prev_char)
        IN  [st EXCEPT !.normalised = Append(pushed, "*"), !.prev_char = "*"]
    ELSE IF curr_char = "?" THEN
        IF st.prev_char = ")" THEN
            LET found == FindGroupStart(st.normalised, Len(st.normalised) - 1, 0)
                inserted == IF found < 0 THEN st.normalised
                            ELSE InsertAt(st.normalised, found, "(")
            IN  [st EXCEPT !.normalised = inserted \o <<"|", ")">>, !.prev_char = ")"]
        ELSE IF Len(st.normalised) = 0 THEN
            [st EXCEPT !.panicked = TRUE]
        ELSE
            [st EXCEPT !.normalised =
                           InsertAt(@, Len(@) - 1, "(") \o <<"|", ")">>,
                       !.prev_char = ")"]
    ELSE IF curr_char = "." THEN
        [st EXCEPT !.normalised = @ \o ModelDotExpansion, !.prev_char = ")"]
    ELSE
        [st EXCEPT !.normalised = Append(@, curr_char), !.prev_char = curr_char]

RECURSIVE NormaliseFrom(_, _, _)
NormaliseFrom(regex, i, st) ==
    IF st.panicked \/ i >= Len(regex) THEN st
    ELSE NormaliseFrom(regex, i + 1, NormaliseChar(st, At(regex, i)))

\* normalise_regex: [panicked, normalised].
normalise_regex(regex) ==
    NormaliseFrom(regex, 0,
        [normalised |-> <<>>, escape_sequence |-> FALSE, prev_char |-> Nul,
         panicked |-> FALSE])

(* ---------------------- thompson.rs: construction ---------------------- *)

\* Option::None as a transition label; Some(c) is the character c.
None == "None"

\* The value a panic field holds while nothing has panicked.
NoPanic == ""

\* HashMap::new()
EmptyMap == [k \in {} |-> {}]

\* map.insert(key, value): an existing entry is replaced.
Insert(map, key, value) ==
    [k \in DOMAIN map \cup {key} |-> IF k = key THEN value ELSE map[k]]

\* map.insert(k, v) for every entry (k, v) of entries.
InsertAll(map, entries) ==
    [k \in DOMAIN map \cup DOMAIN entries |->
        IF k \in DOMAIN entries THEN entries[k] ELSE map[k]]

\* map.entry(key).or_insert_with(Vec::new).push(target); a Vec of targets is
\* read only element by element, so it is held as the set of its elements.
PushTarget(map, key, target) ==
    [k \in DOMAIN map \cup {key} |->
        IF k = key THEN (IF key \in DOMAIN map THEN map[key] ELSE {}) \cup {target}
        ELSE map[k]]

\* The entries ((state + n, input), targets + n) of an NFA's transitions.
Shifted(transitions, n) ==
    [k \in {<<j[1] + n, j[2]>> : j \in DOMAIN transitions} |->
        {s + n : s \in transitions[<<k[1] - n, k[2]>>]}]

create_basic_nfa(letter) ==
    [transitions |-> Insert(EmptyMap, <<0, letter>>, {1}), accepting_state |-> 1]

create_basic_epsilon_nfa ==
    [transitions |-> Insert(EmptyMap, <<0, None>>, {1}), accepting_state |-> 1]

apply_kleene_star(last_nfa) ==
    LET new_accepting == last_nfa.accepting_state + 2
        t1 == Insert(EmptyMap, <<0, None>>, {1})
        t2 == InsertAll(t1, Shifted(last_nfa.transitions, 1))
        t3 == PushTarget(t2, <<last_nfa.accepting_state + 1, None>>, 1)
        t4 == PushTarget(t3, <<last_nfa.accepting_state + 1, None>>, new_accepting)
        t5 == PushTarget(t4, <<0, None>>, new_accepting)
    IN  [transitions |-> t5, accepting_state |-> new_accepting]

\* union with the right NFA shifted by left.accepting_state + 1: its start
\* lands on the shifted accepting state of the left NFA.
union_shifted_one_short(left, right) ==
    LET num_states_left_nfa == left.accepting_state
        num_states_right_nfa == right.accepting_state
        t1 == InsertAll(EmptyMap, Shifted(left.transitions, 1))
        t2 == InsertAll(t1, Shifted(right.transitions, num_states_left_nfa + 1))
        new_accepting_state == num_states_left_nfa + num_states_right_nfa + 3
        t3 == Insert(t2, <<0, None>>, {1, num_states_left_nfa + 1})
        t4 == PushTarget(t3, <<left.accepting_state + 1, None>>, new_accepting_state)
        t5 == PushTarget(t4,
                  <<right.accepting_state + num_states_left_nfa + 1, None>>,
                  new_accepting_state)
    IN  [transitions |-> t5, accepting_state |-> new_accepting_state]

union(left, right) ==
    LET num_states_left_nfa == left.accepting_state
        num_states_right_nfa == right.accepting_state
        t1 == InsertAll(EmptyMap, Shifted(left.transitions, 1))
        t2 == InsertAll(t1, Shifted(right.transitions, num_states_left_nfa + 2))
        new_accepting_state == num_states_left_nfa + num_states_right_nfa + 3
        t3 == Insert(t2, <<0, None>>, {1, num_states_left_nfa + 2})
        t4 == PushTarget(t3, <<left.accepting_state + 1, None>>, new_accepting_state)
        t5 == PushTarget(t4,
                  <<right.accepting_state + num_states_left_nfa + 2, None>>,
                  new_accepting_state)
    IN  [transitions |-> t5, accepting_state |-> new_accepting_state]

\* concatenate with the right NFA shifted one state too far: its start no
\* longer coincides with the accepting state of the left NFA.
concatenate_without_shared_state(left, right) ==
    LET num_states_left_nfa == left.accepting_state + 1
    IN  [transitions |->
             InsertAll(left.transitions,
                       Shifted(right.transitions, num_states_left_nfa)),
         accepting_state |-> right.accepting_state + num_states_left_nfa]

concatenate(left, right) ==
    LET num_states_left_nfa == left.accepting_state
    IN  [transitions |->
             InsertAll(left.transitions,
                       Shifted(right.transitions, num_states_left_nfa)),
         accepting_state |-> right.accepting_state + num_states_left_nfa]

\* Vec::pop-free helpers on a stack held as a sequence (top = last element).
Top(stack) == stack[Len(stack)]

Pop(stack) == SubSeq(stack, 1, Len(stack) - 1)

\* apply_operator: [nfa_stack, panic].
apply_operator(nfa_stack, operator) ==
    IF operator \notin {"|", "."} THEN
        [nfa_stack |-> nfa_stack, panic |-> "Unknown operator"]
    ELSE IF Len(nfa_stack) < 2 THEN
        [nfa_stack |-> nfa_stack,
         panic |-> IF operator = "|" THEN "Expected NFA for union"
                   ELSE "Expected NFA for concatenation"]
    ELSE
        LET nfa_right == Top(nfa_stack)
            nfa_left == Top(Pop(nfa_stack))
            rest == Pop(Pop(nfa_stack))
        IN  [nfa_stack |-> Append(rest, IF operator = "|"
                                        THEN union(nfa_left, nfa_right)
                                        ELSE concatenate(nfa_left, nfa_right)),
             panic |-> NoPanic]

RECURSIVE ReduceToParen(_, _)
\* ')' : `while let Some(op) = operators.pop()`, stopping after a '('.
ReduceToParen(operators, nfa_stack) ==
    IF Len(operators) = 0 THEN
        [operators |-> operators, nfa_stack |-> nfa_stack, panic |-> NoPanic]
    ELSE IF Top(operators) = "(" THEN
        [operators |-> Pop(operators), nfa_stack |-> nfa_stack, panic |-> NoPanic]
    ELSE LET applied == apply_operator(nfa_stack, Top(operators)) IN
         IF applied.panic # NoPanic THEN
             [operators |-> Pop(operators), nfa_stack |-> nfa_stack,
              panic |-> applied.panic]
         ELSE ReduceToParen(Pop(operators), applied.nfa_stack)

RECURSIVE ReduceConcats(_, _)
\* '|' : `while let Some(&op) = operators.last()`, stopping at '(' or '|'.
ReduceConcats(operators, nfa_stack) ==
    IF Len(operators) = 0 \/ Top(operators) \in {"(", "|"} THEN
        [operators |-> operators, nfa_stack |-> nfa_stack, panic |-> NoPanic]
    ELSE LET applied == apply_operator(nfa_stack, Top(operators)) IN
         IF applied.panic # NoPanic THEN
             [operators |-> Pop(operators), nfa_stack |-> nfa_stack,
              panic |-> applied.panic]
         ELSE ReduceConcats(Pop(operators), applied.nfa_stack)

RECURSIVE ReduceRemaining(_, _)
\* End of input: `while let Some(op) = operators.pop()`, panicking on '('.
ReduceRemaining(operators, nfa_stack) ==
    IF Len(operators) = 0 THEN
        [operators |-> operators, nfa_stack |-> nfa_stack, panic |-> NoPanic]
    ELSE IF Top(operators) = "(" THEN
        [operators |-> Pop(operators), nfa_stack |-> nfa_stack,
         panic |-> "Unmatched opening parenthesis"]
    ELSE LET applied == apply_operator(nfa_stack, Top(operators)) IN
         IF applied.panic # NoPanic THEN
             [operators |-> Pop(operators), nfa_stack |-> nfa_stack,
              panic |-> applied.panic]
         ELSE ReduceRemaining(Pop(operators), applied.nfa_stack)

\* The locals of thompson_construction before the first symbol.
ThompsonStart ==
    [operators |-> <<>>, nfa_stack |-> <<>>, concat_flag |-> FALSE,
     escape_sequence |-> FALSE, panic |-> NoPanic]

\* Pushing an atom: an implicit '.' first when an operand precedes it.
PushAtom(st, atom) ==
    [st EXCEPT !.operators = IF st.concat_flag THEN Append(@, ".") ELSE @,
               !.nfa_stack = Append(@, atom),
               !.concat_flag = TRUE,
               !.escape_sequence = FALSE]

\* One iteration of `for symbol in normalised_regex.chars()`.
ThompsonSymbol(st, symbol) ==
    IF st.escape_sequence THEN PushAtom(st, create_basic_nfa(symbol))
    ELSE IF symbol = "(" THEN
        [st EXCEPT !.operators =
                       Append(IF st.concat_flag THEN Append(@, ".") ELSE @, "("),
                   !.concat_flag = FALSE]
    ELSE IF symbol = ")" THEN
        LET pushed == IF ~st.concat_flag
                      THEN Append(st.nfa_stack, create_basic_epsilon_nfa)
                      ELSE st.nfa_stack
            reduced == ReduceToParen(st.operators, pushed)
        IN  [st EXCEPT !.operators = reduced.operators,
                       !.nfa_stack = IF reduced.panic = NoPanic
                                        /\ Len(reduced.nfa_stack) = 0
                                     THEN <<create_basic_epsilon_nfa>>
                                     ELSE reduced.nfa_stack,
                       !.concat_flag = TRUE,
                       !.panic = reduced.panic]
    ELSE IF symbol = "*" THEN
        IF Len(st.nfa_stack) = 0 THEN
            [st EXCEPT !.panic = "Expected NFA for Kleene Star"]
        ELSE
            [st EXCEPT !.nfa_stack =
                           Append(Pop(@), apply_kleene_star(Top(@))),
                       !.concat_flag = TRUE]
    ELSE IF symbol = "|" THEN
        LET reduced == ReduceConcats(st.operators, st.nfa_stack)
            pushed == IF ~st.concat_flag
                      THEN Append(reduced.nfa_stack, create_basic_epsilon_nfa)
                      ELSE reduced.nfa_stack
        IN  IF reduced.panic # NoPanic THEN
                [st EXCEPT !.operators = reduced.operators,
                           !.panic = reduced.panic]
            ELSE
                [st EXCEPT !.operators = Append(reduced.operators, "|"),
                           !.nfa_stack = pushed,
                           !.concat_flag = FALSE]
    ELSE IF symbol = "\\" THEN
        [st EXCEPT !.escape_sequence = TRUE]
    ELSE PushAtom(st, create_basic_nfa(symbol))

\* The code of thompson_construction after the for loop: [nfa_stack, panic];
\* without a panic the stack holds the one resulting NFA.
ThompsonEnd(st) ==
    LET trailing == IF Len(st.operators) > 0 /\ Top(st.operators) = "|"
                       /\ Len(st.nfa_stack) < 2
                    THEN Append(st.nfa_stack, create_basic_epsilon_nfa)
                    ELSE st.nfa_stack
        reduced == ReduceRemaining(st.operators, trailing)
    IN  IF reduced.panic # NoPanic THEN
            [nfa_stack |-> reduced.nfa_stack, panic |-> reduced.panic]
        ELSE IF Len(reduced.nfa_stack) # 1 THEN
            [nfa_stack |-> reduced.nfa_stack,
             panic |-> "Invalid Regex, unexpected final NFA stack size"]
        ELSE [nfa_stack |-> reduced.nfa_stack, panic |-> NoPanic]


RECURSIVE ThompsonFrom(_, _, _)
\* The for loop of thompson_construction from character i on.
ThompsonFrom(normalised_regex, i, st) ==
    IF st.panic # NoPanic \/ i >= Len(normalised_regex) THEN st
    ELSE ThompsonFrom(normalised_regex, i + 1,
                      ThompsonSymbol(st, At(normalised_regex, i)))

\* thompson_construction: [nfa_stack, panic]; without a panic the NFA
\* returned is the one element of nfa_stack.
thompson_construction(normalised_regex) ==
    LET st == ThompsonFrom(normalised_regex, 0, ThompsonStart)
    IN  IF st.panic # NoPanic
        THEN [nfa_stack |-> st.nfa_stack, panic |-> st.panic]
        ELSE ThompsonEnd(st)

(* ------------------- thompson.rs: subset construction ------------------ *)

\* map.get(key) of a map to sets of targets, the empty set for a missing key.
Get(map, key) == IF key \in DOMAIN map THEN map[key] ELSE {}

RECURSIVE EpsilonClosureLoop(_, _, _)
\* The while loop of epsilon_closure.  The state popped from `stack` is an
\* arbitrary one; the set reached at the end is the same for every order.
EpsilonClosureLoop(nfa, states, stack) ==
    IF stack = {} THEN states
    ELSE LET state_id == CHOOSE s \in stack : TRUE
             fresh == Get(nfa.transitions, <<state_id, None>>) \ states
         IN  EpsilonClosureLoop(nfa, states \cup fresh,
                                (stack \ {state_id}) \cup fresh)

\* epsilon_closure that follows the epsilon transitions of the given states
\* only, not those of the states it adds.
epsilon_closure_one_step(nfa, states) ==
    states \cup UNION {Get(nfa.transitions, <<state_id, None>>) : state_id \in states}

epsilon_closure(nfa, states) == EpsilonClosureLoop(nfa, states, states)

move_nfa(nfa, states, symbol) ==
    UNION {Get(nfa.transitions, <<state, symbol>>) : state \in states}

RECURSIVE hash_set_to_sorted_vec(_)
hash_set_to_sorted_vec(set) ==
    IF set = {} THEN <<>>
    ELSE LET least == CHOOSE x \in set : \A y \in set : x <= y
         IN  <<least>> \o hash_set_to_sorted_vec(set \ {least})

\* `symbols` of nfa_to_dfa: the characters labelling a transition.
NfaSymbols(nfa) == {k[2] : k \in DOMAIN nfa.transitions} \ {None}

\* The locals of nfa_to_dfa when the while loop is first reached.  in_body
\* tells whether the loop body is running for current_closure; pending are the
\* symbols the body's for loop has still to visit.
NfaToDfaStart(nfa) ==
    LET start_closure == epsilon_closure(nfa, {0})
    IN  [state_map |-> Insert(EmptyMap, hash_set_to_sorted_vec(start_closure), 0),
         dfa_accepting_states |-> {},
         transitions |-> EmptyMap,
         unmarked_states |-> <<start_closure>>,
         in_body |-> FALSE,
         current_closure |-> {},
         current_dfa_state_id |-> 0,
         pending |-> {}]

\* `while let Some(current_closure) = unmarked_states.pop()` up to the for loop.
NfaToDfaPop(nfa, d) ==
    LET current_closure == Top(d.unmarked_states)
        current_dfa_state_id == d.state_map[hash_set_to_sorted_vec(current_closure)]
    IN  [d EXCEPT !.unmarked_states = Pop(@),
                  !.in_body = NfaSymbols(nfa) # {},
                  !.current_closure = current_closure,
                  !.current_dfa_state_id = current_dfa_state_id,
                  !.dfa_accepting_states =
                      IF nfa.accepting_state \in current_closure
                      THEN @ \cup {current_dfa_state_id} ELSE @,
                  !.pending = NfaSymbols(nfa)]

\* One iteration of `for symbol in symbols` that pushes move_closure on
\* unmarked_states whether or not state_map already holds it.
NfaToDfaSymbol_pushes_again(nfa, d, symbol) ==
    LET move_closure ==
            epsilon_closure(nfa, move_nfa(nfa, d.current_closure, symbol))
        sorted_vec == hash_set_to_sorted_vec(move_closure)
        next_dfa_state_id == Cardinality(DOMAIN d.state_map)
        is_new == sorted_vec \notin DOMAIN d.state_map
        state_map == IF is_new THEN Insert(d.state_map, sorted_vec, next_dfa_state_id)
                     ELSE d.state_map
        left == d.pending \ {symbol}
    IN  IF move_closure = {} THEN
            [d EXCEPT !.pending = left, !.in_body = left # {}]
        ELSE
            [d EXCEPT !.state_map = state_map,
                      !.unmarked_states = Append(@, move_closure),
                      !.transitions =
                          Insert(@, <<d.current_dfa_state_id, symbol>>,
                                 state_map[sorted_vec]),
                      !.pending = left,
                      !.in_body = left # {}]

\* One iteration of `for symbol in symbols`.
NfaToDfaSymbol(nfa, d, symbol) ==
    LET move_closure ==
            epsilon_closure(nfa, move_nfa(nfa, d.current_closure, symbol))
        sorted_vec == hash_set_to_sorted_vec(move_closure)
        next_dfa_state_id == Cardinality(DOMAIN d.state_map)
        is_new == sorted_vec \notin DOMAIN d.state_map
        state_map == IF is_new THEN Insert(d.state_map, sorted_vec, next_dfa_state_id)
                     ELSE d.state_map
        left == d.pending \ {symbol}
    IN  IF move_closure = {} THEN
            [d EXCEPT !.pending = left, !.in_body = left # {}]
        ELSE
            [d EXCEPT !.state_map = state_map,
                      !.unmarked_states = IF is_new THEN Append(@, move_closure) ELSE @,
                      !.transitions =
                          Insert(@, <<d.current_dfa_state_id, symbol>>,
                                 state_map[sorted_vec]),
                      !.pending = left,
                      !.in_body = left # {}]

(* ----------------------- glushkov.rs: construction --------------------- *)

\* SymbolType
Normal == "Normal"

KleeneStar == "KleeneStar"

Escaped == "Escaped"

\* The locals of index_states before the first symbol.
IndexStart ==
    [indexed_states |-> EmptyMap, symbol_type |-> Normal, group_stack |-> <<0>>,
     idx |-> 0, next_group_id |-> 1, panic |-> NoPanic]

\* indexed_states.entry(idx).or_insert((symbol, symbol_type, group)); idx += 1.
\* group_stack.last().unwrap() panics on an empty stack.
IndexInsert(st, symbol, symbol_type) ==
    IF Len(st.group_stack) = 0 THEN
        [st EXCEPT !.panic = "called Option::unwrap() on a None value"]
    ELSE
        [st EXCEPT !.indexed_states =
                       IF st.idx \in DOMAIN @ THEN @
                       ELSE Insert(@, st.idx,
                                   [symbol |-> symbol, symbol_type |-> symbol_type,
                                    group |-> Top(st.group_stack)]),
                   !.idx = @ + 1]

\* One iteration of `while let Some(symbol) = chars.next()`; next_symbol is
\* chars.peek(), None at the end of the pattern.
IndexSymbol(st, symbol, next_symbol) ==
    IF st.symbol_type = Escaped THEN
        [IndexInsert(st, symbol, Escaped) EXCEPT !.symbol_type = Normal]
    ELSE IF symbol = "|" THEN
        [st EXCEPT !.next_group_id = @ + 1,
                   !.group_stack =
                       IF Len(@) = 0 THEN @
                       ELSE Append(Pop(@), st.next_group_id)]
    ELSE IF symbol = "(" THEN
        [st EXCEPT !.next_group_id = @ + 1,
                   !.group_stack = Append(@, st.next_group_id)]
    ELSE IF symbol = ")" THEN
        [st EXCEPT !.group_stack = IF Len(@) = 0 THEN @ ELSE Pop(@)]
    ELSE IF symbol = "*" THEN
        [st EXCEPT !.symbol_type = Normal]
    ELSE IF symbol = "\\" THEN
        [st EXCEPT !.symbol_type = Escaped]
    ELSE
        LET symbol_type == IF next_symbol = "*" THEN KleeneStar ELSE st.symbol_type
        IN  [IndexInsert(st, symbol, symbol_type) EXCEPT !.symbol_type = symbol_type]

RECURSIVE IndexFrom(_, _, _)
IndexFrom(regex, i, st) ==
    IF st.panic # NoPanic \/ i >= Len(regex) THEN st
    ELSE IndexFrom(regex, i + 1,
             IndexSymbol(st, At(regex, i),
                         IF i + 1 < Len(regex) THEN At(regex, i + 1) ELSE None))

\* index_states: [indexed_states, panic, ...].
index_states(regex) == IndexFrom(regex, 0, IndexStart)

\* fill_sets: the transitions and accepting states it writes for `states`.
\* A group's Vec, once sorted, lists the group's states in ascending order.
fill_sets(states) ==
    LET ids == DOMAIN states
        group_of(s) == {x \in ids : states[x].group = states[s].group}
        later(s) == {x \in group_of(s) : x > s}
        first_of(g) == CHOOSE x \in g : \A y \in g : x <= y
        start_states ==
            {first_of(group_of(s)) : s \in ids}
            \cup {first_of(later(s)) :
                     s \in {x \in ids : states[x].symbol_type = KleeneStar
                                         /\ later(x) # {}}}
        targets(s) ==
            IF states[s].symbol_type = KleeneStar THEN {s} \cup later(s)
            ELSE IF later(s) # {} THEN {first_of(later(s))}
            ELSE {}
        accepting_states == {s \in ids : later(s) = {}}
        virtual_start == (CHOOSE x \in ids : \A y \in ids : y <= x) + 1
        position_keys == {<<s, states[s].symbol>> : s \in {x \in ids : targets(x) # {}}}
        start_keys == {<<virtual_start, states[s].symbol>> : s \in start_states}
    IN  IF ids = {} THEN [transitions |-> EmptyMap, accepting_states |-> {}]
        ELSE [transitions |->
                  [k \in position_keys \cup start_keys |->
                      IF k[1] = virtual_start
                      THEN {s \in start_states : states[s].symbol = k[2]}
                      ELSE targets(k[1])],
              accepting_states |-> accepting_states]

\* glushkov_construction: [nfa, panic].
glushkov_construction(regex) ==
    LET indexed == index_states(regex)
    IN  [nfa |-> fill_sets(indexed.indexed_states), panic |-> indexed.panic]

(* ------------------- glushkov.rs: subset construction ------------------ *)

\* `alphabet` of nfa_no_epsilon_to_dfa.
GlushkovAlphabet(nfa) == {k[2] : k \in DOMAIN nfa.transitions}

\* `all_nfa_states` of nfa_no_epsilon_to_dfa.
AllNfaStates(nfa) ==
    {k[1] : k \in DOMAIN nfa.transitions}
    \cup UNION {nfa.transitions[k] : k \in DOMAIN nfa.transitions}
    \cup nfa.accepting_states

\* The locals of nfa_no_epsilon_to_dfa when the while loop is first reached.
NoEpsilonStart ==
    [nfa_states_to_dfa_state |-> Insert(EmptyMap, hash_set_to_sorted_vec({0}), 0),
     next_dfa_state_id |-> 1,
     dfa_accepting_states |-> {},
     dfa_transitions |-> EmptyMap,
     work_queue |-> <<{0}>>,
     in_body |-> FALSE,
     current_nfa_states |-> {},
     current_dfa_state |-> 0,
     pending |-> {}]

\* `while let Some(current_nfa_states) = work_queue.pop_front()` up to the for loop.
NoEpsilonPop(nfa, d) ==
    LET current_nfa_states == Head(d.work_queue)
        current_dfa_state ==
            d.nfa_states_to_dfa_state[hash_set_to_sorted_vec(current_nfa_states)]
    IN  [d EXCEPT !.work_queue = Tail(@),
                  !.in_body = GlushkovAlphabet(nfa) # {},
                  !.current_nfa_states = current_nfa_states,
                  !.current_dfa_state = current_dfa_state,
                  !.dfa_accepting_states =
                      IF current_nfa_states \cap nfa.accepting_states # {}
                      THEN @ \cup {current_dfa_state} ELSE @,
                  !.pending = GlushkovAlphabet(nfa)]

\* One iteration of `for &symbol in &alphabet`.
NoEpsilonSymbol(nfa, d, symbol) ==
    LET next_nfa_states ==
            UNION {Get(nfa.transitions, <<s, symbol>>) : s \in d.current_nfa_states}
        next_state_key == hash_set_to_sorted_vec(next_nfa_states)
        is_new == next_state_key \notin DOMAIN d.nfa_states_to_dfa_state
        next_dfa_state == IF is_new THEN d.next_dfa_state_id
                          ELSE d.nfa_states_to_dfa_state[next_state_key]
        left == d.pending \ {symbol}
    IN  IF next_nfa_states = {} THEN
            [d EXCEPT !.pending = left, !.in_body = left # {}]
        ELSE
            [d EXCEPT !.nfa_states_to_dfa_state =
                          IF is_new THEN Insert(@, next_state_key, next_dfa_state)
                          ELSE @,
                      !.next_dfa_state_id = IF is_new THEN @ + 1 ELSE @,
                      !.work_queue = IF is_new THEN Append(@, next_nfa_states) ELSE @,
                      !.dfa_transitions =
                          Insert(@, <<d.current_dfa_state, symbol>>, next_dfa_state),
                      !.pending = left,
                      !.in_body = left # {}]

(* ------------------------ lib.rs: optimise_dfa ------------------------- *)

\* The locals of optimise_dfa when the while loop is first reached.
\* partition_list and worklist hold 0-based block indices, as in the code.
OptimiseStart(dfa) ==
    LET sources == {k[1] : k \in DOMAIN dfa.transitions}
        accepting_states_set == dfa.accepting_states
        non_accepting_states == sources \ dfa.accepting_states
        all_states == sources \cup dfa.accepting_states
    IN  [partition |-> [s \in all_states |->
                           IF s \in dfa.accepting_states THEN 0 ELSE 1],
         partition_list |-> <<accepting_states_set, non_accepting_states>>,
         worklist |-> (IF accepting_states_set # {} THEN <<0>> ELSE <<>>)
                      \o (IF non_accepting_states # {} THEN <<1>> ELSE <<>>),
         in_body |-> FALSE,
         current_partition_index |-> 0,
         states_to_check |-> EmptyMap,
         pending_symbols |-> {},
         states_to_split |-> {},
         partitions_to_split |-> {}]

\* `partition[&target_state]` panics for a target that is no key of partition.
OptimiseIndexPanics(dfa, m) ==
    \E k \in DOMAIN dfa.transitions : dfa.transitions[k] \notin DOMAIN m.partition

\* `while let Some(current_partition_index) = worklist.pop_front()` and the
\* loop that fills states_to_check.
OptimisePop(dfa, m) ==
    LET current_partition_index == Head(m.worklist)
        into == {k \in DOMAIN dfa.transitions :
                    m.partition[dfa.transitions[k]] = current_partition_index}
        states_to_check ==
            [symbol \in {k[2] : k \in into} |->
                {k[1] : k \in {j \in into : j[2] = symbol}}]
    IN  [m EXCEPT !.worklist = Tail(@),
                  !.current_partition_index = current_partition_index,
                  !.states_to_check = states_to_check,
                  !.pending_symbols = DOMAIN states_to_check,
                  !.in_body = DOMAIN states_to_check # {}]

\* One iteration of `for (_, states_to_split) in states_to_check.iter()` up to
\* the loop over partitions_to_split.
OptimiseSymbol(m, symbol) ==
    LET states_to_split == m.states_to_check[symbol]
        partitions_to_split ==
            {m.partition[state] :
                state \in {s \in states_to_split :
                              Cardinality(At(m.partition_list, m.partition[s])) > 1}}
        left == m.pending_symbols \ {symbol}
    IN  [m EXCEPT !.pending_symbols = left,
                  !.states_to_split = states_to_split,
                  !.partitions_to_split = partitions_to_split,
                  !.in_body = left # {} \/ partitions_to_split # {}]

\* The block pushed on the worklist after a split of partition_index_to_split
\* into the new block new_partition_index.
SplitEnqueued(partition_list, new_partition_index, partition_index_to_split) ==
    IF Cardinality(At(partition_list, new_partition_index))
           < Cardinality(At(partition_list, partition_index_to_split))
    THEN new_partition_index
    ELSE partition_index_to_split

\* One iteration of `for &partition_index_to_split in partitions_to_split.iter()`
\* with the push on the worklist moved out of the `if` that guards the split.
OptimiseSplit_always_enqueues(m, partition_index_to_split) ==
    LET block == At(m.partition_list, partition_index_to_split)
        intersection == block \cap m.states_to_split
        difference == block \ m.states_to_split
        new_partition_index == Len(m.partition_list)
        partition_list ==
            [Append(m.partition_list, intersection)
                EXCEPT ![partition_index_to_split + 1] = difference]
        left == m.partitions_to_split \ {partition_index_to_split}
    IN  IF intersection # {} /\ difference # {} THEN
            [m EXCEPT !.partition =
                          [s \in DOMAIN @ |->
                              IF s \in intersection THEN new_partition_index ELSE @[s]],
                      !.partition_list = partition_list,
                      !.worklist =
                          Append(@, SplitEnqueued(partition_list, new_partition_index,
                                                  partition_index_to_split)),
                      !.partitions_to_split = left,
                      !.in_body = left # {} \/ m.pending_symbols # {}]
        ELSE
            [m EXCEPT !.worklist = Append(@, partition_index_to_split),
                      !.partitions_to_split = left,
                      !.in_body = left # {} \/ m.pending_symbols # {}]

\* One iteration of `for &partition_index_to_split in partitions_to_split.iter()`.
OptimiseSplit(m, partition_index_to_split) ==
    LET block == At(m.partition_list, partition_index_to_split)
        intersection == block \cap m.states_to_split
        difference == block \ m.states_to_split
        new_partition_index == Len(m.partition_list)
        partition_list ==
            [Append(m.partition_list, intersection)
                EXCEPT ![partition_index_to_split + 1] = difference]
        left == m.partitions_to_split \ {partition_index_to_split}
    IN  IF intersection # {} /\ difference # {} THEN
            [m EXCEPT !.partition =
                          [s \in DOMAIN @ |->
                              IF s \in intersection THEN new_partition_index ELSE @[s]],
                      !.partition_list = partition_list,
                      !.worklist =
                          Append(@, SplitEnqueued(partition_list, new_partition_index,
                                                  partition_index_to_split)),
                      !.partitions_to_split = left,
                      !.in_body = left # {} \/ m.pending_symbols # {}]
        ELSE
            [m EXCEPT !.partitions_to_split = left,
                      !.in_body = left # {} \/ m.pending_symbols # {}]

\* new_state_map's built without the first insert, the one for partition[&0].
NewStateMapsFromIterationOnly(partition) ==
    LET blocks == {partition[s] : s \in DOMAIN partition}
        ids == 0..(Cardinality(blocks) - 1)
    IN  {f \in [blocks -> ids] : \A b1, b2 \in blocks : f[b1] = f[b2] => b1 = b2}

\* The new_state_map's optimise_dfa can build: the block of state 0 gets id 0,
\* the other blocks get the following ids in the order partition.iter() yields
\* them, which is any order.
NewStateMaps(partition) ==
    LET blocks == {partition[s] : s \in DOMAIN partition}
        ids == 0..(Cardinality(blocks) - 1)
    IN  {f \in [blocks -> ids] :
            /\ \A b1, b2 \in blocks : f[b1] = f[b2] => b1 = b2
            /\ 0 \in DOMAIN partition => f[partition[0]] = 0}

\* The DFAs the rebuild at the end of optimise_dfa can leave.  When two
\* transitions of one block on one symbol lead to different blocks, the
\* insert made last wins, and the transitions are visited in any order.
MinimalDfas(dfa, partition) ==
    UNION {
        LET new_key(k) == <<new_state_map[partition[k[1]]], k[2]>>
            keys == {new_key(k) : k \in DOMAIN dfa.transitions}
            candidates(key) ==
                {new_state_map[partition[dfa.transitions[k]]] :
                    k \in {j \in DOMAIN dfa.transitions : new_key(j) = key}}
        IN  {[transitions |-> minimal_transitions,
              accepting_states |->
                  {new_state_map[partition[s]] :
                      s \in DOMAIN partition \cap dfa.accepting_states}] :
                minimal_transitions \in
                    {t \in [keys -> {new_state_map[b] : b \in DOMAIN new_state_map}] :
                        \A key \in keys : t[key] \in candidates(key)}}
        : new_state_map \in NewStateMaps(partition)}

(* -------------------------- lib.rs: executors -------------------------- *)

\* Option<usize>::None for an index.
NoIndex == -1

RECURSIVE ProcessFrom(_, _, _, _)
ProcessFrom(dfa, input, i, current_state) ==
    IF i >= Len(input) THEN current_state \in dfa.accepting_states
    ELSE IF <<current_state, At(input, i)>> \in DOMAIN dfa.transitions
         THEN ProcessFrom(dfa, input, i + 1,
                          dfa.transitions[<<current_state, At(input, i)>>])
         ELSE FALSE

process(dfa, input) == ProcessFrom(dfa, input, 0, 0)

RECURSIVE ByteOffset(_, _)
\* The byte offset of the character with 0-based index k (str::len() for
\* k = the number of characters).
ByteOffset(text, k) ==
    IF k = 0 THEN 0 ELSE ByteOffset(text, k - 1) + len_utf8(At(text, k - 1))

\* str::len(): the length in bytes.
ByteLen(text) == ByteOffset(text, Len(text))

is_char_boundary(text, index) == \E k \in 0..Len(text) : ByteOffset(text, k) = index

\* Whether &text[start..=end] panics: the range is in bytes.
SlicePanics(text, start, end) ==
    \/ start > end + 1
    \/ end + 1 > ByteLen(text)
    \/ ~is_char_boundary(text, start)
    \/ ~is_char_boundary(text, end + 1)

RECURSIVE CharsBetween(_, _, _, _)
CharsBetween(text, k, start, end) ==
    IF k >= Len(text) THEN <<>>
    ELSE (IF start <= ByteOffset(text, k) /\ ByteOffset(text, k) <= end
          THEN <<At(text, k)>> ELSE <<>>)
         \o CharsBetween(text, k + 1, start, end)

\* &text[start..=end] when it does not panic.
SliceInclusive(text, start, end) == CharsBetween(text, 0, start, end)

RECURSIVE ScanFrom(_, _, _, _, _)
\* The inner for loop of find_first_match and find_all_matches from the
\* character with index i on: the final match_end.
ScanFrom(dfa, text, i, current_state, match_end) ==
    IF i >= Len(text) THEN match_end
    ELSE IF <<current_state, At(text, i)>> \in DOMAIN dfa.transitions
         THEN LET next_state == dfa.transitions[<<current_state, At(text, i)>>]
              IN  ScanFrom(dfa, text, i + 1, next_state,
                           IF next_state \in dfa.accepting_states THEN i
                           ELSE match_end)
         ELSE match_end

\* A returned or pushed slice, or the panic of the slicing.
Sliced(text, start, end) ==
    IF SlicePanics(text, start, end)
    THEN [tag |-> "Panic", start |-> start, end |-> end, slice |-> <<>>]
    ELSE [tag |-> "Some", start |-> start, end |-> end,
          slice |-> SliceInclusive(text, start, end)]

RECURSIVE FindFirstFrom(_, _, _)
\* The while loop of find_first_match.  match_start, when set, is start_pos.
FindFirstFrom(dfa, text, start_pos) ==
    IF start_pos >= ByteLen(text)
    THEN [tag |-> "None", start |-> NoIndex, end |-> NoIndex, slice |-> <<>>]
    ELSE LET match_end == ScanFrom(dfa, text, start_pos, 0, NoIndex)
         IN  IF match_end # NoIndex THEN Sliced(text, start_pos, match_end)
             ELSE FindFirstFrom(dfa, text, start_pos + 1)

\* find_first_match that returns the empty slice at offset 0 when the start
\* state is accepting.
find_first_match_empty_at_start(dfa, text) ==
    IF 0 \in dfa.accepting_states
    THEN [tag |-> "Some", start |-> 0, end |-> NoIndex, slice |-> <<>>]
    ELSE FindFirstFrom(dfa, text, 0)

find_first_match(dfa, text) == FindFirstFrom(dfa, text, 0)

RECURSIVE FindAllFrom(_, _, _, _)
\* The while loop of find_all_matches.
FindAllFrom(dfa, input, start_pos, matches) ==
    IF start_pos >= ByteLen(input) THEN [tag |-> "Ok", matches |-> matches]
    ELSE LET match_end == ScanFrom(dfa, input, start_pos, 0, NoIndex)
             sliced == Sliced(input, start_pos, match_end)
         IN  IF match_end = NoIndex
             THEN FindAllFrom(dfa, input, start_pos + 1, matches)
             ELSE IF sliced.tag = "Panic"
             THEN [tag |-> "Panic", matches |-> Append(matches, sliced)]
             ELSE FindAllFrom(dfa, input, match_end + 1, Append(matches, sliced))

RECURSIVE FindAllOverlappingFrom(_, _, _, _)
\* The while loop of find_all_matches with start_pos += 1 after a match too.
FindAllOverlappingFrom(dfa, input, start_pos, matches) ==
    IF start_pos >= ByteLen(input) THEN [tag |-> "Ok", matches |-> matches]
    ELSE LET match_end == ScanFrom(dfa, input, start_pos, 0, NoIndex)
             sliced == Sliced(input, start_pos, match_end)
         IN  IF match_end = NoIndex
             THEN FindAllOverlappingFrom(dfa, input, start_pos + 1, matches)
             ELSE IF sliced.tag = "Panic"
             THEN [tag |-> "Panic", matches |-> Append(matches, sliced)]
             ELSE FindAllOverlappingFrom(dfa, input, start_pos + 1,
                                         Append(matches, sliced))

find_all_matches_overlapping(dfa, input) ==
    FindAllOverlappingFrom(dfa, input, 0, <<>>)

find_all_matches(dfa, input) == FindAllFrom(dfa, input, 0, <<>>)

\* The while loop of an executor is at its test with this start_pos and
\* these matches.
Running(start_pos, matches) ==
    [tag |-> "Running", start_pos |-> start_pos, matches |-> matches]

\* The test of the while loop of find_first_match and one iteration of its
\* body: what find_first_match returns, or the loop at its next test.
FindFirstIteration(dfa, text, start_pos) ==
    IF start_pos >= ByteLen(text)
    THEN [tag |-> "None", start |-> NoIndex, end |-> NoIndex, slice |-> <<>>]
    ELSE LET match_end == ScanFrom(dfa, text, start_pos, 0, NoIndex)
         IN  IF match_end # NoIndex THEN Sliced(text, start_pos, match_end)
             ELSE Running(start_pos + 1, <<>>)

\* One iteration of find_all_matches that goes on at match_end after a match.
FindAllIteration_restarts_at_end(dfa, input, start_pos, matches) ==
    IF start_pos >= ByteLen(input) THEN [tag |-> "Ok", matches |-> matches]
    ELSE LET match_end == ScanFrom(dfa, input, start_pos, 0, NoIndex)
             sliced == Sliced(input, start_pos, match_end)
         IN  IF match_end = NoIndex THEN Running(start_pos + 1, matches)
             ELSE IF sliced.tag = "Panic"
             THEN [tag |-> "Panic", matches |-> Append(matches, sliced)]
             ELSE Running(match_end, Append(matches, sliced))

\* The test of the while loop of find_all_matches and one iteration of its
\* body: what find_all_matches returns, or the loop at its next test.
FindAllIteration(dfa, input, start_pos, matches) ==
    IF start_pos >= ByteLen(input) THEN [tag |-> "Ok", matches |-> matches]
    ELSE LET match_end == ScanFrom(dfa, input, start_pos, 0, NoIndex)
             sliced == Sliced(input, start_pos, match_end)
         IN  IF match_end = NoIndex THEN Running(start_pos + 1, matches)
             ELSE IF sliced.tag = "Panic"
             THEN [tag |-> "Panic", matches |-> Append(matches, sliced)]
             ELSE Running(match_end + 1, Append(matches, sliced))
(* --------------------------- the state machine ------------------------- *)

VARIABLES
    regex,          \* the pattern every Regex::new of this run is given
    compiled,       \* construction type -> the DFA of the Regex built with it
    pc,             \* where the program is
    construction,   \* the construction type of the Regex::new under way
    normalised,     \* normalised_regex
    nfa,            \* regex_nfa
    det,            \* the locals of nfa_to_dfa / nfa_no_epsilon_to_dfa
    dfa,            \* regex_dfa
    opt,            \* the locals of optimise_dfa
    failure,        \* the panic message once the program has panicked
    earlier,        \* the pattern before this one and the Regex objects built of it
    call            \* the last executor call and what it returned

vars == <<regex, compiled, pc, construction, normalised, nfa, det, dfa, opt,
          failure, earlier, call>>

ConstructionType == {"Thompson", "Glushkov"}

\* The value of a local that is not live.
Dropped == <<>>

\* No pattern came before.
NoEarlier == [regex |-> <<>>, compiled |-> EmptyMap]

NoCall == [function |-> "none", construction |-> "none", text |-> <<>>,
           result |-> Dropped]

Init ==
    /\ regex \in Patterns
    /\ compiled = EmptyMap
    /\ pc = "idle"
    /\ construction = "none"
    /\ normalised = Dropped
    /\ nfa = Dropped
    /\ det = Dropped
    /\ dfa = Dropped
    /\ opt = Dropped
    /\ failure = NoPanic
    /\ earlier = NoEarlier
    /\ call = NoCall

\* The same start with a pattern of DotPatterns.
InitDot ==
    /\ regex \in DotPatterns
    /\ compiled = EmptyMap
    /\ pc = "idle"
    /\ construction = "none"
    /\ normalised = Dropped
    /\ nfa = Dropped
    /\ det = Dropped
    /\ dfa = Dropped
    /\ opt = Dropped
    /\ failure = NoPanic
    /\ earlier = NoEarlier
    /\ call = NoCall

\* A panic: the program is gone, and every object with it.
Abort(message) ==
    /\ pc' = "panicked"
    /\ failure' = message
    /\ compiled' = EmptyMap
    /\ normalised' = Dropped
    /\ nfa' = Dropped
    /\ det' = Dropped
    /\ dfa' = Dropped
    /\ opt' = Dropped
    /\ earlier' = NoEarlier
    /\ UNCHANGED <<regex, construction>>

\* Regex::new(pattern, construction).  Each construction type is used once,
\* and both are used only for a pattern of at most MaxPairPatLen characters.
RegexNew(choice) ==
    /\ pc = "idle"
    /\ choice \notin DOMAIN compiled
    /\ compiled = EmptyMap \/ Len(regex) <= MaxPairPatLen
    /\ pc' = "new"
    /\ construction' = choice
    /\ call' = NoCall
    /\ UNCHANGED <<regex, earlier, compiled, normalised, nfa, det, dfa, opt, failure>>

\* ThompsonDfa::new / GlushkovDfa::new on a pattern is_valid_regex rejects.
InvalidPattern ==
    /\ pc = "new"
    /\ ~is_valid_regex(regex)
    /\ Abort("is not a valid regular expression!")
    /\ UNCHANGED call

\* ThompsonDfa::new / GlushkovDfa::new up to the call of the construction.
Normalise ==
    /\ pc = "new"
    /\ is_valid_regex(regex)
    /\ LET st == normalise_regex(regex) IN
       IF st.panicked THEN Abort("attempt to subtract with overflow")
       ELSE /\ normalised' = st.normalised
            /\ pc' = "construction"
            /\ UNCHANGED <<regex, earlier, compiled, construction, nfa, det, dfa, opt, failure>>
    /\ UNCHANGED call

ThompsonConstruction ==
    /\ pc = "construction"
    /\ construction = "Thompson"
    /\ LET built == thompson_construction(normalised) IN
       IF built.panic # NoPanic THEN Abort(built.panic)
       ELSE /\ nfa' = built.nfa_stack[1]
            /\ pc' = "nfa_to_dfa"
            /\ det' = NfaToDfaStart(nfa')
            /\ UNCHANGED <<regex, earlier, compiled, construction, normalised, dfa, opt, failure>>
    /\ UNCHANGED call

NfaToDfaLoop ==
    /\ pc = "nfa_to_dfa"
    /\ ~det.in_body
    /\ det.unmarked_states # <<>>
    /\ det' = NfaToDfaPop(nfa, det)
    /\ UNCHANGED <<regex, earlier, compiled, pc, construction, normalised, nfa, dfa, opt,
                   failure, call>>

NfaToDfaFor ==
    /\ pc = "nfa_to_dfa"
    /\ det.in_body
    /\ \E symbol \in det.pending : det' = NfaToDfaSymbol(nfa, det, symbol)
    /\ UNCHANGED <<regex, earlier, compiled, pc, construction, normalised, nfa, dfa, opt,
                   failure, call>>

\* nfa_to_dfa returns and optimise_dfa runs up to its while loop.
NfaToDfaReturn ==
    /\ pc = "nfa_to_dfa"
    /\ ~det.in_body
    /\ det.unmarked_states = <<>>
    /\ dfa' = [transitions |-> det.transitions,
               accepting_states |-> det.dfa_accepting_states]
    /\ det' = Dropped
    /\ opt' = OptimiseStart(dfa')
    /\ pc' = "optimise_dfa"
    /\ UNCHANGED <<regex, earlier, compiled, construction, normalised, nfa, failure, call>>

GlushkovConstruction ==
    /\ pc = "construction"
    /\ construction = "Glushkov"
    /\ LET built == glushkov_construction(normalised) IN
       IF built.panic # NoPanic THEN Abort(built.panic)
       ELSE /\ nfa' = built.nfa
            /\ pc' = "nfa_no_epsilon_to_dfa"
            /\ UNCHANGED <<regex, earlier, compiled, construction, normalised, det, dfa, opt,
                           failure>>
    /\ UNCHANGED call

\* nfa_no_epsilon_to_dfa up to its while loop.
NoEpsilonBegin ==
    /\ pc = "nfa_no_epsilon_to_dfa"
    /\ det = Dropped
    /\ IF 0 \notin AllNfaStates(nfa)
       THEN Abort("Expected start state 0 not found in NFA states")
       ELSE /\ det' = NoEpsilonStart
            /\ UNCHANGED <<regex, earlier, compiled, pc, construction, normalised, nfa, dfa,
                           opt, failure>>
    /\ UNCHANGED call

NoEpsilonLoop ==
    /\ pc = "nfa_no_epsilon_to_dfa"
    /\ det # Dropped
    /\ ~det.in_body
    /\ det.work_queue # <<>>
    /\ det' = NoEpsilonPop(nfa, det)
    /\ UNCHANGED <<regex, earlier, compiled, pc, construction, normalised, nfa, dfa, opt,
                   failure, call>>

NoEpsilonFor ==
    /\ pc = "nfa_no_epsilon_to_dfa"
    /\ det # Dropped
    /\ det.in_body
    /\ \E symbol \in det.pending : det' = NoEpsilonSymbol(nfa, det, symbol)
    /\ UNCHANGED <<regex, earlier, compiled, pc, construction, normalised, nfa, dfa, opt,
                   failure, call>>

\* nfa_no_epsilon_to_dfa returns and optimise_dfa runs up to its while loop.
NoEpsilonReturn ==
    /\ pc = "nfa_no_epsilon_to_dfa"
    /\ det # Dropped
    /\ ~det.in_body
    /\ det.work_queue = <<>>
    /\ dfa' = [transitions |-> det.dfa_transitions,
               accepting_states |-> det.dfa_accepting_states]
    /\ det' = Dropped
    /\ opt' = OptimiseStart(dfa')
    /\ pc' = "optimise_dfa"
    /\ UNCHANGED <<regex, earlier, compiled, construction, normalised, nfa, failure, call>>

OptimiseLoop ==
    /\ pc = "optimise_dfa"
    /\ ~opt.in_body
    /\ opt.worklist # <<>>
    /\ IF OptimiseIndexPanics(dfa, opt)
       THEN Abort("key not found in partition")
       ELSE /\ opt' = OptimisePop(dfa, opt)
            /\ UNCHANGED <<regex, earlier, compiled, pc, construction, normalised, nfa, det,
                           dfa, failure>>
    /\ UNCHANGED call

OptimiseForSymbol ==
    /\ pc = "optimise_dfa"
    /\ opt.in_body
    /\ opt.partitions_to_split = {}
    /\ \E symbol \in opt.pending_symbols : opt' = OptimiseSymbol(opt, symbol)
    /\ UNCHANGED <<regex, earlier, compiled, pc, construction, normalised, nfa, det, dfa,
                   failure, call>>

OptimiseForSplit ==
    /\ pc = "optimise_dfa"
    /\ opt.in_body
    /\ \E partition_index_to_split \in opt.partitions_to_split :
           opt' = OptimiseSplit(opt, partition_index_to_split)
    /\ UNCHANGED <<regex, earlier, compiled, pc, construction, normalised, nfa, det, dfa,
                   failure, call>>

\* The rebuild at the end of optimise_dfa, and Regex::new returns Ok(Regex).
OptimiseReturn ==
    /\ pc = "optimise_dfa"
    /\ ~opt.in_body
    /\ opt.worklist = <<>>
    /\ \E minimal \in MinimalDfas(dfa, opt.partition) :
           compiled' = Insert(compiled, construction, minimal)
    /\ pc' = "idle"
    /\ normalised' = Dropped
    /\ nfa' = Dropped
    /\ dfa' = Dropped
    /\ opt' = Dropped
    /\ UNCHANGED <<regex, earlier, construction, det, failure, call>>

\* The caller keeps the Regex objects it has built and goes on to build
\* Regex objects of a pattern, another one or the same again (both patterns
\* of CanonPatterns).
AnotherPattern(pattern) ==
    /\ pc = "idle"
    /\ call = NoCall
    /\ compiled # EmptyMap
    /\ regex \in CanonPatterns
    /\ earlier' = [regex |-> regex, compiled |-> compiled]
    /\ regex' = pattern
    /\ compiled' = EmptyMap
    /\ UNCHANGED <<pc, construction, normalised, nfa, det, dfa, opt, failure, call>>

\* Regex::is_match
IsMatch(choice, text) ==
    /\ pc = "idle"
    /\ call = NoCall
    /\ choice \in DOMAIN compiled
    /\ call' = [function |-> "is_match", construction |-> choice, text |-> text,
                result |-> process(compiled[choice], text)]
    /\ UNCHANGED <<regex, earlier, compiled, pc, construction, normalised, nfa, det, dfa,
                   opt, failure>>

\* Regex::find
Find(choice, text) ==
    /\ pc = "idle"
    /\ call = NoCall
    /\ choice \in DOMAIN compiled
    /\ LET result == find_first_match(compiled[choice], text) IN
       /\ call' = [function |-> "find", construction |-> choice, text |-> text,
                   result |-> result]
       /\ IF result.tag = "Panic"
          THEN Abort("byte index is not a char boundary")
          ELSE UNCHANGED <<regex, earlier, compiled, pc, construction, normalised, nfa,
                           det, dfa, opt, failure>>

\* Regex::findall
FindAll(choice, text) ==
    /\ pc = "idle"
    /\ call = NoCall
    /\ choice \in DOMAIN compiled
    /\ LET result == find_all_matches(compiled[choice], text) IN
       /\ call' = [function |-> "findall", construction |-> choice, text |-> text,
                   result |-> result]
       /\ IF result.tag = "Panic"
          THEN Abort("byte index is not a char boundary")
          ELSE UNCHANGED <<regex, earlier, compiled, pc, construction, normalised, nfa,
                           det, dfa, opt, failure>>

\* The caller is done with what the executor returned.
DropResult ==
    /\ pc = "idle"
    /\ call # NoCall
    /\ call' = NoCall
    /\ UNCHANGED <<regex, earlier, compiled, pc, construction, normalised, nfa, det, dfa,
                   opt, failure>>

Next ==
    \/ \E choice \in ConstructionType : RegexNew(choice)
    \/ InvalidPattern
    \/ Normalise
    \/ ThompsonConstruction
    \/ NfaToDfaLoop
    \/ NfaToDfaFor
    \/ NfaToDfaReturn
    \/ GlushkovConstruction
    \/ NoEpsilonBegin
    \/ NoEpsilonLoop
    \/ NoEpsilonFor
    \/ NoEpsilonReturn
    \/ OptimiseLoop
    \/ OptimiseForSymbol
    \/ OptimiseForSplit
    \/ OptimiseReturn
    \/ \E choice \in ConstructionType, text \in Texts : IsMatch(choice, text)
    \/ \E choice \in ConstructionType, text \in Texts : Find(choice, text)
    \/ \E choice \in ConstructionType, text \in Texts : FindAll(choice, text)
    \/ DropResult
    \/ \E pattern \in CanonPatterns : AnotherPattern(pattern)

Spec == Init /\ [][Next]_vars

\* The steps of Regex::new once it is called: straight-line code and loops of
\* one thread, which goes on to its next step for as long as it has one.
Compile ==
    \/ InvalidPattern
    \/ Normalise
    \/ ThompsonConstruction
    \/ NfaToDfaLoop
    \/ NfaToDfaFor
    \/ NfaToDfaReturn
    \/ GlushkovConstruction
    \/ NoEpsilonBegin
    \/ NoEpsilonLoop
    \/ NoEpsilonFor
    \/ NoEpsilonReturn
    \/ OptimiseLoop
    \/ OptimiseForSymbol
    \/ OptimiseForSplit
    \/ OptimiseReturn

\* Regex::new is running.
Compiling == pc \notin {"idle", "panicked"}

\* A step of Compile exists.  Every other action waits for pc = "idle", so
\* this is ENABLED <<Compile>>_vars, written out guard by guard.
CompileStepExists ==
    /\ Compiling
    /\ pc = "construction" => construction \in ConstructionType
    /\ pc = "nfa_to_dfa" => (det.in_body => det.pending # {})
    /\ (pc = "nfa_no_epsilon_to_dfa" /\ det # Dropped)
           => (det.in_body => det.pending # {})
    /\ pc = "optimise_dfa" =>
           IF opt.in_body
           THEN opt.partitions_to_split # {} \/ opt.pending_symbols # {}
           ELSE opt.worklist # <<>> \/ MinimalDfas(dfa, opt.partition) # {}

\* WF_vars(Compile) with its ENABLED <<Compile>>_vars written as
\* CompileStepExists: a compilation that has a next step takes it.
CompileGoesOn == []<>(~CompileStepExists) \/ []<><<Compile>>_vars

\* The runs in which the thread that compiles is not stopped for ever.
SpecLive == Init /\ [][Next]_vars /\ CompileGoesOn

\* The runs on the patterns of DotPatterns.
SpecDot == InitDot /\ [][Next]_vars

(* ------------- the executors' while loops, one iteration a step ------------- *)

\* Regex::find is called and find_first_match reaches its while loop.
FindBegin(choice, text) ==
    /\ pc = "idle"
    /\ call = NoCall
    /\ choice \in DOMAIN compiled
    /\ call' = [function |-> "find", construction |-> choice, text |-> text,
                result |-> Running(0, <<>>)]
    /\ UNCHANGED <<regex, earlier, compiled, pc, construction, normalised, nfa, det, dfa,
                   opt, failure>>

\* Regex::findall is called and find_all_matches reaches its while loop.
FindAllBegin(choice, text) ==
    /\ pc = "idle"
    /\ call = NoCall
    /\ choice \in DOMAIN compiled
    /\ call' = [function |-> "findall", construction |-> choice, text |-> text,
                result |-> Running(0, <<>>)]
    /\ UNCHANGED <<regex, earlier, compiled, pc, construction, normalised, nfa, det, dfa,
                   opt, failure>>

\* An executor is in its while loop.
Executing == call.function \in {"find", "findall"} /\ call.result.tag = "Running"

FindIterate ==
    /\ Executing
    /\ call.function = "find"
    /\ LET result == FindFirstIteration(compiled[call.construction], call.text,
                                        call.result.start_pos) IN
       /\ call' = [call EXCEPT !.result = result]
       /\ IF result.tag = "Panic"
          THEN Abort("byte index is not a char boundary")
          ELSE UNCHANGED <<regex, earlier, compiled, pc, construction, normalised, nfa,
                           det, dfa, opt, failure>>

FindAllIterate ==
    /\ Executing
    /\ call.function = "findall"
    /\ LET result == FindAllIteration(compiled[call.construction], call.text,
                                      call.result.start_pos, call.result.matches) IN
       /\ call' = [call EXCEPT !.result = result]
       /\ IF result.tag = "Panic"
          THEN Abort("byte index is not a char boundary")
          ELSE UNCHANGED <<regex, earlier, compiled, pc, construction, normalised, nfa,
                           det, dfa, opt, failure>>

\* The caller is done with what find or findall returned.
DropReturned ==
    /\ pc = "idle"
    /\ call # NoCall
    /\ ~Executing
    /\ call' = NoCall
    /\ UNCHANGED <<regex, earlier, compiled, pc, construction, normalised, nfa, det, dfa,
                   opt, failure>>

\* The steps of the executors' loops.
Execute == FindIterate \/ FindAllIterate

NextExec ==
    \/ \E choice \in ConstructionType : RegexNew(choice)
    \/ Compile
    \/ \E choice \in ConstructionType, text \in Texts : FindBegin(choice, text)
    \/ \E choice \in ConstructionType, text \in Texts : FindAllBegin(choice, text)
    \/ Execute
    \/ DropReturned

\* WF_vars(Execute) with its ENABLED <<Execute>>_vars written as Executing:
\* the loop of an executor has a next step at every test, and the thread
\* that runs it is not stopped for ever.
ExecuteGoesOn == []<>(~Executing) \/ []<><<Execute>>_vars

\* The runs with the executors' loops taken one iteration at a time.
SpecExec == Init /\ [][NextExec]_vars /\ ExecuteGoesOn

(* ------------------ what a pattern denotes (reference) ----------------- *)

\* The characters that are not literals of the pattern grammar
\*     E := T ('|' T)*    T := F*    F := A q?    A := literal | '\' c | '(' E ')'
\* where q is '*' in the kernel grammar and '*', '+' or '?' before desugaring.
MetaCharacters == {"(", ")", "|", "*", "+", "?", ".", "\\"}

KernelQuantifiers == {"*"}

SurfaceQuantifiers == {"*", "+", "?"}

\* Languages are cut to the words of at most MaxWordLen characters.
LangConcat(L1, L2) ==
    {x[1] \o x[2] : x \in {y \in L1 \X L2 : Len(y[1]) + Len(y[2]) <= MaxWordLen}}

RECURSIVE LangStarFrom(_, _)
LangStarFrom(L, acc) ==
    LET next == acc \cup LangConcat(acc, L)
    IN  IF next = acc THEN acc ELSE LangStarFrom(L, next)

LangStar(L) == LangStarFrom(L, {<<>>})

Quantified(L, q) ==
    CASE q = "*" -> LangStar(L)
      [] q = "+" -> LangConcat(L, LangStar(L))
      [] q = "?" -> L \cup {<<>>}

RECURSIVE RefE(_, _, _)
RECURSIVE RefAlt(_, _, _, _)
RECURSIVE RefT(_, _, _, _)
RECURSIVE RefF(_, _, _)
RECURSIVE RefA(_, _, _)
\* Recursive descent from character i: [ok, lang, pos], pos the first
\* character not consumed.
RefA(p, i, quantifiers) ==
    IF i >= Len(p) THEN [ok |-> FALSE, lang |-> {}, pos |-> i]
    ELSE IF At(p, i) = "\\" THEN
        IF i + 1 < Len(p)
        THEN [ok |-> TRUE, lang |-> {<<At(p, i + 1)>>}, pos |-> i + 2]
        ELSE [ok |-> FALSE, lang |-> {}, pos |-> i]
    ELSE IF At(p, i) = "(" THEN
        LET e == RefE(p, i + 1, quantifiers)
        IN  IF e.pos < Len(p) /\ At(p, e.pos) = ")"
            THEN [ok |-> TRUE, lang |-> e.lang, pos |-> e.pos + 1]
            ELSE [ok |-> FALSE, lang |-> {}, pos |-> i]
    ELSE IF At(p, i) \in MetaCharacters THEN [ok |-> FALSE, lang |-> {}, pos |-> i]
    ELSE [ok |-> TRUE, lang |-> {<<At(p, i)>>}, pos |-> i + 1]

RefF(p, i, quantifiers) ==
    LET a == RefA(p, i, quantifiers)
    IN  IF a.ok /\ a.pos < Len(p) /\ At(p, a.pos) \in quantifiers
        THEN [ok |-> TRUE, lang |-> Quantified(a.lang, At(p, a.pos)), pos |-> a.pos + 1]
        ELSE a

RefT(p, i, quantifiers, lang) ==
    LET f == RefF(p, i, quantifiers)
    IN  IF f.ok THEN RefT(p, f.pos, quantifiers, LangConcat(lang, f.lang))
        ELSE [ok |-> TRUE, lang |-> lang, pos |-> i]

RefAlt(p, i, quantifiers, lang) ==
    IF i < Len(p) /\ At(p, i) = "|"
    THEN LET t == RefT(p, i + 1, quantifiers, {<<>>})
         IN  RefAlt(p, t.pos, quantifiers, lang \cup t.lang)
    ELSE [ok |-> TRUE, lang |-> lang, pos |-> i]

RefE(p, i, quantifiers) ==
    LET t == RefT(p, i, quantifiers, {<<>>})
    IN  RefAlt(p, t.pos, quantifiers, t.lang)

InKernelGrammar(p) == RefE(p, 0, KernelQuantifiers).pos = Len(p)

InSurfaceGrammar(p) == RefE(p, 0, SurfaceQuantifiers).pos = Len(p)

\* The words of at most MaxWordLen characters a pattern of the grammar denotes.
Language(p) == RefE(p, 0, SurfaceQuantifiers).lang

Nullable(p) == <<>> \in Language(p)

\* s[i..=j] of a text, in characters.
Substring(s, i, j) == SubSeq(s, i + 1, j + 1)

\* The spans [i, j] of a text whose substring the DFA accepts.
MatchSpans(d, s) ==
    {span \in (0..(Len(s) - 1)) \X (0..(Len(s) - 1)) :
        span[1] <= span[2] /\ process(d, Substring(s, span[1], span[2]))}

\* The leftmost-longest of a non-empty set of spans.
LeftmostLongest(spans) ==
    CHOOSE span \in spans :
        \A other \in spans :
            \/ span[1] < other[1]
            \/ span[1] = other[1] /\ span[2] >= other[2]

(* ------------------------- outcomes of a run --------------------------- *)

\* Regex::new panicked (an executor's panic leaves its call behind).
CompilePanicked == pc = "panicked" /\ call = NoCall

ExecutorPanicked == pc = "panicked" /\ call # NoCall

\* The words of at most MaxWordLen characters over the characters a DFA reads.
DfaWords(d) == SeqsUpTo({k[2] : k \in DOMAIN d.transitions}, MaxWordLen)

(* ------------------------------- claims -------------------------------- *)

\* C1: for every validator-accepted pattern of the kernel grammar, Regex::new
\* with Thompson completes, and is_match of the Regex on a text is true
\* exactly when the text is in the language the pattern denotes.
C1_ThompsonIsMatchAgreesWithReference ==
    (is_valid_regex(regex) /\ InKernelGrammar(regex)) =>
        /\ ~(CompilePanicked /\ construction = "Thompson")
        /\ (call.function = "is_match" /\ call.construction = "Thompson")
               => call.result = (call.text \in Language(regex))

\* C2: a Thompson Regex and a Glushkov Regex of the same pattern give the
\* same is_match answer on every text.
C2_ThompsonAndGlushkovAgree ==
    ConstructionType \subseteq DOMAIN compiled =>
        \A s \in Texts :
            process(compiled["Thompson"], s) = process(compiled["Glushkov"], s)

\* C3: the DFA optimise_dfa leaves accepts exactly the words the DFA handed
\* to it accepts.
C3_MinimisationPreservesLanguage ==
    [][(pc = "optimise_dfa" /\ pc' = "idle") =>
          \A s \in DfaWords(dfa) :
              process(dfa, s) = process(compiled'[construction], s)]_vars

\* C4: find returns the leftmost-longest substring of the text the Regex
\* matches, and None when no substring matches.
C4_FindIsLeftmostLongest ==
    call.function = "find" =>
        /\ call.result.tag # "Panic"
        /\ LET spans == MatchSpans(compiled[call.construction], call.text)
           IN  IF spans = {} THEN call.result.tag = "None"
               ELSE /\ call.result.tag = "Some"
                    /\ call.result.start = LeftmostLongest(spans)[1]
                    /\ call.result.end = LeftmostLongest(spans)[2]
                    /\ call.result.slice =
                           Substring(call.text, LeftmostLongest(spans)[1],
                                     LeftmostLongest(spans)[2])

\* C5: find_all returns matches in ascending order, each starting after the
\* last index of the one before, and leaves out no leftmost-longest match
\* lying before the first, between two, or after the last of them.
C5_FindAllOrderedDisjointMaximal ==
    call.function = "findall" =>
        /\ call.result.tag # "Panic"
        /\ LET matches == call.result.matches
               spans == MatchSpans(compiled[call.construction], call.text)
               Free(span) ==
                   \A k \in 1..Len(matches) :
                       span[2] < matches[k].start \/ span[1] > matches[k].end
           IN  /\ \A k \in 1..(Len(matches) - 1) :
                      matches[k].end < matches[k + 1].start
               /\ \A k \in 1..Len(matches) :
                      /\ <<matches[k].start, matches[k].end>> \in spans
                      /\ matches[k].slice =
                             Substring(call.text, matches[k].start, matches[k].end)
               /\ ~\E span \in spans : Free(span)

\* C6: Regex::new does not panic on a pattern is_valid_regex accepts, with
\* either construction type.
C6_ValidPatternCompilesWithoutPanic ==
    is_valid_regex(regex) => ~CompilePanicked

\* C7: Regex::new on a pattern is_valid_regex rejects does not panic and
\* builds no automaton (it returns the error as a value).
C7_InvalidPatternIsReturnedAsErr ==
    ~is_valid_regex(regex) => (pc # "panicked" /\ compiled = EmptyMap)

C9_EmptyTextMatchesIffNullable ==
    (is_valid_regex(regex) /\ InSurfaceGrammar(regex)) =>
        /\ \A choice \in DOMAIN compiled :
               (0 \in compiled[choice].accepting_states) = Nullable(regex)
        /\ (call.function = "is_match" /\ call.text = <<>>)
               => call.result = Nullable(regex)

\* C10: for a pattern that denotes the empty string alone, find returns
\* Some("") at offset 0 on every text.
C10_FindOnEpsilonOnlyPattern ==
    (/\ is_valid_regex(regex)
     /\ InSurfaceGrammar(regex)
     /\ Language(regex) = {<<>>}
     /\ call.function = "find") =>
        /\ call.result.tag = "Some"
        /\ call.result.start = 0
        /\ call.result.slice = <<>>


(* ----------------------- claims on the validator ------------------------ *)

RECURSIVE IsEscaped(_, _)
\* The character at index i of a pattern is the one a '\' escapes.
IsEscaped(p, i) == i > 0 /\ At(p, i - 1) = "\\" /\ ~IsEscaped(p, i - 1)

\* The program is past the is_valid_regex test of ThompsonDfa::new /
\* GlushkovDfa::new: the pattern was accepted.
PatternAccepted ==
    \/ pc \in {"construction", "nfa_to_dfa", "nfa_no_epsilon_to_dfa", "optimise_dfa"}
    \/ compiled # EmptyMap

\* The last character of the pattern is an unescaped '|'.
EndsWithBar(p) ==
    /\ Len(p) > 0
    /\ At(p, Len(p) - 1) = "|"
    /\ ~IsEscaped(p, Len(p) - 1)

\* Some unescaped '*' or '+' is the first character, or comes directly after
\* an unescaped '(', '|', '*' or '+'.
QuantifierWithoutAtom(p) ==
    \E i \in 0..(Len(p) - 1) :
        /\ At(p, i) \in {"*", "+"}
        /\ ~IsEscaped(p, i)
        /\ \/ i = 0
           \/ At(p, i - 1) \in {"(", "|", "*", "+"} /\ ~IsEscaped(p, i - 1)

\* C11: a pattern whose last character is an unescaped '|' is rejected by
\* is_valid_regex, so Regex::new never gets past the validation with it.
C11_TrailingBarIsRejected ==
    EndsWithBar(regex) => ~PatternAccepted

\* C12: a pattern with an unescaped '*' or '+' that is the first character,
\* or directly follows '(', '|' or another '*' or '+', is rejected by
\* is_valid_regex, so Regex::new never gets past the validation with it.
C12_QuantifierNeedsAtom ==
    QuantifierWithoutAtom(regex) => ~PatternAccepted

(* ----------------------- claims on the desugarer ------------------------ *)

\* The pattern has an unescaped occurrence of the character c.
HasUnescaped(p, c) ==
    \E i \in 0..(Len(p) - 1) : At(p, i) = c /\ ~IsEscaped(p, i)

\* The words of at most MaxWordLen characters a pattern of the kernel grammar
\* denotes ('+' and '?' are not operators of it).
KernelLanguage(p) == RefE(p, 0, KernelQuantifiers).lang

\* normalise_regex has returned and its result is still live.
Normalised ==
    pc \in {"construction", "nfa_to_dfa", "nfa_no_epsilon_to_dfa", "optimise_dfa"}

\* C13: for a valid pattern whose only sugar is X+ (X a literal, an escaped
\* character or a parenthesised group), normalise_regex returns a pattern of
\* the kernel grammar that denotes what the pattern denotes: X+ has become
\* XX*, one or more repetitions of X.
C13_PlusBecomesAtomAtomStar ==
    (/\ Normalised
     /\ InSurfaceGrammar(regex)
     /\ HasUnescaped(regex, "+")
     /\ ~HasUnescaped(regex, "?")) =>
        /\ InKernelGrammar(normalised)
        /\ KernelLanguage(normalised) = Language(regex)

\* C14: for a valid pattern whose only sugar is X? (X a literal, an escaped
\* character or a parenthesised group), normalise_regex returns a pattern of
\* the kernel grammar that denotes what the pattern denotes: X? has become
\* (X|), X or the empty string.
C14_OptionalBecomesGroupWithEmptyAlternative ==
    (/\ Normalised
     /\ InSurfaceGrammar(regex)
     /\ HasUnescaped(regex, "?")
     /\ ~HasUnescaped(regex, "+")) =>
        /\ InKernelGrammar(normalised)
        /\ KernelLanguage(normalised) = Language(regex)

\* C15: a Regex of the pattern '.' matches every one-character text: the
\* characters '.' expands to are all the characters a text can hold, the
\* metacharacters among them.
C15_DotMatchesEveryCharacter ==
    regex = <<".">> =>
        \A choice \in DOMAIN compiled :
            \A c \in DotAlphabet : process(compiled[choice], <<c>>)

\* The texts an escaped character is tried on.
EscapeTexts == SeqsUpTo(PatternAlphabet, 2)

\* C16: for a pattern that is one escaped character, normalise_regex returns
\* the pattern unchanged, and the Regex of either construction type matches
\* the one-character text of that character and no other text.
C16_EscapedCharacterIsLiteral ==
    (Len(regex) = 2 /\ regex[1] = "\\") =>
        /\ Normalised => normalised = regex
        /\ \A choice \in DOMAIN compiled :
               \A s \in EscapeTexts :
                   process(compiled[choice], s) = (s = <<regex[2]>>)

(* ----------------------- claims on the minimiser ------------------------ *)

\* The while loop of optimise_dfa has ended; the rebuild is what is left.
OptimiseLoopDone == pc = "optimise_dfa" /\ ~opt.in_body /\ opt.worklist = <<>>

\* No refinement step can split a block of the partition: two states of one
\* block are both accepting or both not, and on every symbol either none of
\* them has a transition or both have one, into one block.
Stable(d, partition) ==
    \A s, t \in DOMAIN partition :
        partition[s] = partition[t] =>
            /\ (s \in d.accepting_states) = (t \in d.accepting_states)
            /\ \A symbol \in {k[2] : k \in DOMAIN d.transitions} :
                   /\ (<<s, symbol>> \in DOMAIN d.transitions)
                          = (<<t, symbol>> \in DOMAIN d.transitions)
                   /\ <<s, symbol>> \in DOMAIN d.transitions /\
                      <<t, symbol>> \in DOMAIN d.transitions =>
                          partition[d.transitions[<<s, symbol>>]]
                              = partition[d.transitions[<<t, symbol>>]]

\* C17: when the while loop of optimise_dfa has ended, the partition is
\* stable.
C17_FinalPartitionIsStable ==
    OptimiseLoopDone => Stable(dfa, opt.partition)

\* The states of a DFA: state 0, and those its transitions and accepting
\* states name.
DfaStates(d) ==
    {0} \cup {k[1] : k \in DOMAIN d.transitions}
        \cup {d.transitions[k] : k \in DOMAIN d.transitions}
        \cup d.accepting_states

\* One DFA is the other up to a renumbering of the states that keeps state 0.
Isomorphic(d1, d2) ==
    /\ Cardinality(DfaStates(d1)) = Cardinality(DfaStates(d2))
    /\ \E f \in [DfaStates(d1) -> DfaStates(d2)] :
           /\ f[0] = 0
           /\ \A s, t \in DfaStates(d1) : f[s] = f[t] => s = t
           /\ d2.accepting_states = {f[s] : s \in d1.accepting_states}
           /\ DOMAIN d2.transitions = {<<f[k[1]], k[2]>> : k \in DOMAIN d1.transitions}
           /\ \A k \in DOMAIN d1.transitions :
                  d2.transitions[<<f[k[1]], k[2]>>] = f[d1.transitions[k]]

\* C18: the Regex objects built, with one construction type, of two valid
\* patterns that denote the same language hold minimised DFAs that are equal
\* up to a renumbering of the states that keeps state 0.
C18_SameLanguageSameMinimalDfa ==
    (/\ InSurfaceGrammar(earlier.regex)
     /\ InSurfaceGrammar(regex)
     /\ Language(earlier.regex) = Language(regex)) =>
        \A choice \in DOMAIN earlier.compiled \cap DOMAIN compiled :
            Isomorphic(earlier.compiled[choice], compiled[choice])

(* ------------------ claims on the Thompson construction ----------------- *)

\* The states of an epsilon-NFA: state 0, the accepting state, and those its
\* transitions name.
ThompsonStates(n) ==
    {0, n.accepting_state}
        \cup {k[1] : k \in DOMAIN n.transitions}
        \cup UNION {n.transitions[k] : k \in DOMAIN n.transitions}

RECURSIVE ReachableFrom(_, _)
\* The states reachable from those of found, over epsilon and characters.
ReachableFrom(n, found) ==
    LET next == found \cup UNION {n.transitions[k] :
                                     k \in {j \in DOMAIN n.transitions : j[1] \in found}}
    IN  IF next = found THEN found ELSE ReachableFrom(n, next)

RECURSIVE ReachingInto(_, _)
\* The states from which one of found can be reached.
ReachingInto(n, found) ==
    LET next == found \cup {k[1] : k \in {j \in DOMAIN n.transitions :
                                             n.transitions[j] \cap found # {}}}
    IN  IF next = found THEN found ELSE ReachingInto(n, next)

\* Every state is reachable from state 0 and can reach the accepting state.
Connected(n) ==
    /\ ReachableFrom(n, {0}) = ThompsonStates(n)
    /\ ReachingInto(n, {n.accepting_state}) = ThompsonStates(n)

\* C19: the epsilon-NFA thompson_construction returns, the basic NFAs, and
\* the NFAs apply_kleene_star, union and concatenate build of NFAs that
\* thompson_construction returned have every state reachable from state 0 and
\* able to reach the one accepting state.
C19_ThompsonNfaIsConnected ==
    pc = "nfa_to_dfa" =>
        /\ Connected(nfa)
        /\ Connected(create_basic_nfa("a"))
        /\ Connected(create_basic_epsilon_nfa)
        /\ Connected(apply_kleene_star(nfa))
        /\ Connected(union(nfa, create_basic_nfa("a")))
        /\ Connected(union(create_basic_epsilon_nfa, nfa))
        /\ Connected(concatenate(nfa, nfa))

\* thompson_construction has returned an NFA built with a union, a Kleene
\* star and a concatenation.
C19_Witness ==
    /\ pc = "nfa_to_dfa"
    /\ regex = <<"a", "b", "*", "|">>
    /\ nfa.accepting_state > 4

(* ------------------ claims on the Glushkov construction ----------------- *)

\* C20: in the NFA glushkov_construction returns, every transition into a
\* position carries the character index_states recorded for that position.
C20_TransitionCarriesLetterOfTarget ==
    pc = "nfa_no_epsilon_to_dfa" =>
        LET states == index_states(normalised).indexed_states
        IN  \A k \in DOMAIN nfa.transitions :
                \A p \in nfa.transitions[k] :
                    p \in DOMAIN states /\ states[p].symbol = k[2]

\* The elements of a sequence.
Range(s) == {s[k] : k \in 1..Len(s)}

\* The index of the block a step of optimise_dfa has split: the one block of
\* the old partition_list that the step changed.
SplitIndex ==
    CHOOSE i \in 0..(Len(opt.partition_list) - 1) :
        At(opt'.partition_list, i) # At(opt.partition_list, i)

\* A step of optimise_dfa has split a block: partition_list has grown.
SplitStep ==
    /\ pc = "optimise_dfa"
    /\ pc' = "optimise_dfa"
    /\ Len(opt'.partition_list) > Len(opt.partition_list)

\* C21: when optimise_dfa splits a block, then if the block was on the
\* worklist both halves are on it afterwards, and if it was not the smaller
\* half is on it afterwards.
C21_SplitKeepsWorklistRule ==
    [][SplitStep =>
          LET old == SplitIndex
              new == Len(opt.partition_list)
              smaller == IF Cardinality(At(opt'.partition_list, new))
                                < Cardinality(At(opt'.partition_list, old))
                         THEN {new}
                         ELSE IF Cardinality(At(opt'.partition_list, old))
                                     < Cardinality(At(opt'.partition_list, new))
                         THEN {old}
                         ELSE {old, new}
          IN  IF old \in Range(opt.worklist)
              THEN {old, new} \subseteq Range(opt'.worklist)
              ELSE smaller \cap Range(opt'.worklist) # {}]_vars

(* -------------------- claims on the subset construction ----------------- *)

RECURSIVE EpsilonReach(_, _)
\* The states an epsilon-NFA can be in after any number of epsilon steps
\* from a state of found.
EpsilonReach(n, found) ==
    LET next == found \cup UNION {n.transitions[k] :
                                     k \in {j \in DOMAIN n.transitions :
                                               j[1] \in found /\ j[2] = None}}
    IN  IF next = found THEN found ELSE EpsilonReach(n, next)

RECURSIVE NfaRun(_, _, _)
\* The states an epsilon-NFA can be in after it has read the word s from a
\* state of from.
NfaRun(n, from, s) ==
    IF s = <<>> THEN EpsilonReach(n, from)
    ELSE LET now == EpsilonReach(n, from)
             stepped == UNION {n.transitions[k] :
                                  k \in {j \in DOMAIN n.transitions :
                                            j[1] \in now /\ j[2] = Head(s)}}
         IN  NfaRun(n, stepped, Tail(s))

\* The epsilon-NFA has a path from state 0 to its accepting state that
\* spells s.
NfaAccepts(n, s) == n.accepting_state \in NfaRun(n, {0}, s)

\* The while loop of nfa_to_dfa has ended.
NfaToDfaLoopDone ==
    pc = "nfa_to_dfa" /\ ~det.in_body /\ det.unmarked_states = <<>>

\* C22: the DFA nfa_to_dfa returns accepts a word (missing transition =
\* reject) exactly when the epsilon-NFA has a path from state 0 to its
\* accepting state that spells the word; DFA state 0 is the epsilon closure of
\* {0}, and when the loop has ended a DFA state is accepting exactly when its
\* subset holds the accepting NFA state.
C22_SubsetConstructionPreservesLanguage ==
    /\ (pc = "optimise_dfa" /\ construction = "Thompson") =>
           \A s \in SeqsUpTo(NfaSymbols(nfa), MaxWordLen) :
               process(dfa, s) = NfaAccepts(nfa, s)
    /\ pc = "nfa_to_dfa" =>
           LET start == hash_set_to_sorted_vec(EpsilonReach(nfa, {0}))
           IN  start \in DOMAIN det.state_map /\ det.state_map[start] = 0
    /\ NfaToDfaLoopDone =>
           det.dfa_accepting_states =
               {det.state_map[subset] :
                   subset \in {v \in DOMAIN det.state_map :
                                  nfa.accepting_state \in Range(v)}}

\* nfa_to_dfa has returned the DFA of a pattern with a union, a Kleene star
\* and a concatenation, and the DFA accepts a word of two characters.
C22_Witness ==
    /\ pc = "optimise_dfa"
    /\ construction = "Thompson"
    /\ regex = <<"a", "b", "*", "|">>
    /\ process(dfa, <<"a", "b">>)

\* The DFA ids a determiniser has handed out.
Ids(map) == {map[v] : v \in DOMAIN map}

\* The ids are the dense range from 0, one per subset; the start subset has
\* id 0; no subset is empty; the transitions recorded lead from an id to an
\* id; and every subset still to be processed has an id and waits only once.
NumberedOnce(map, start, transitions, waiting) ==
    /\ Ids(map) = 0..(Cardinality(DOMAIN map) - 1)
    /\ \A v, w \in DOMAIN map : map[v] = map[w] => v = w
    /\ start \in DOMAIN map /\ map[start] = 0
    /\ <<>> \notin DOMAIN map
    /\ \A k \in DOMAIN transitions : k[1] \in Ids(map) /\ transitions[k] \in Ids(map)
    /\ \A i \in 1..Len(waiting) :
           /\ hash_set_to_sorted_vec(waiting[i]) \in DOMAIN map
           /\ \A j \in 1..Len(waiting) : waiting[i] = waiting[j] => i = j

\* A step of a determiniser keeps the ids handed out, gives a new subset the
\* next id, and puts a subset on the worklist only when it is new.
NumberedInOrder(map, map_after, waiting, waiting_after) ==
    /\ \A v \in DOMAIN map : v \in DOMAIN map_after /\ map_after[v] = map[v]
    /\ \A v \in DOMAIN map_after \ DOMAIN map :
           /\ map_after[v] = Cardinality(DOMAIN map)
           /\ \E i \in 1..Len(waiting_after) :
                  hash_set_to_sorted_vec(waiting_after[i]) = v
    /\ \A i \in 1..Len(waiting_after) :
           \/ waiting_after[i] \in Range(waiting)
           \/ hash_set_to_sorted_vec(waiting_after[i]) \notin DOMAIN map

\* The while loop of nfa_no_epsilon_to_dfa has ended.
NoEpsilonLoopDone ==
    /\ pc = "nfa_no_epsilon_to_dfa"
    /\ det # Dropped
    /\ ~det.in_body
    /\ det.work_queue = <<>>

\* C23: in nfa_to_dfa and in nfa_no_epsilon_to_dfa every subset reached gets
\* one id, the ids are the dense range from 0 in the order of discovery with
\* the start subset as 0, no transition leads to the empty subset, a subset
\* is put on the worklist only when it is discovered, and when the loop has
\* ended every subset has been processed: it has a transition on every symbol
\* on which the NFA can leave it.
C23_EachSubsetHasOneId ==
    /\ [](pc = "nfa_to_dfa" =>
             NumberedOnce(det.state_map,
                          hash_set_to_sorted_vec(EpsilonReach(nfa, {0})),
                          det.transitions, det.unmarked_states))
    /\ []((pc = "nfa_no_epsilon_to_dfa" /\ det # Dropped) =>
             NumberedOnce(det.nfa_states_to_dfa_state, <<0>>,
                          det.dfa_transitions, det.work_queue))
    /\ [](NfaToDfaLoopDone =>
             \A v \in DOMAIN det.state_map :
                 \A symbol \in NfaSymbols(nfa) :
                     LET target == NfaRun(nfa, Range(v), <<symbol>>)
                         key == <<det.state_map[v], symbol>>
                     IN  IF target = {} THEN key \notin DOMAIN det.transitions
                         ELSE /\ key \in DOMAIN det.transitions
                              /\ det.transitions[key] =
                                     det.state_map[hash_set_to_sorted_vec(target)])
    /\ [](NoEpsilonLoopDone =>
             \A v \in DOMAIN det.nfa_states_to_dfa_state :
                 \A symbol \in GlushkovAlphabet(nfa) :
                     LET target == UNION {nfa.transitions[k] :
                                             k \in {j \in DOMAIN nfa.transitions :
                                                       j[1] \in Range(v) /\ j[2] = symbol}}
                         key == <<det.nfa_states_to_dfa_state[v], symbol>>
                     IN  IF target = {} THEN key \notin DOMAIN det.dfa_transitions
                         ELSE /\ key \in DOMAIN det.dfa_transitions
                              /\ det.dfa_transitions[key] =
                                     det.nfa_states_to_dfa_state[
                                         hash_set_to_sorted_vec(target)])
    /\ [][(pc = "nfa_to_dfa" /\ pc' = "nfa_to_dfa") =>
             NumberedInOrder(det.state_map, det'.state_map,
                             det.unmarked_states, det'.unmarked_states)]_vars
    /\ [][(pc = "nfa_no_epsilon_to_dfa" /\ pc' = "nfa_no_epsilon_to_dfa"
           /\ det # Dropped /\ det' # Dropped) =>
             NumberedInOrder(det.nfa_states_to_dfa_state,
                             det'.nfa_states_to_dfa_state,
                             det.work_queue, det'.work_queue)]_vars

\* nfa_no_epsilon_to_dfa has ended its loop with three DFA states, in a run
\* in which nfa_to_dfa has built a DFA before.
C23_Witness ==
    /\ NoEpsilonLoopDone
    /\ "Thompson" \in DOMAIN compiled
    /\ Cardinality(DOMAIN det.nfa_states_to_dfa_state) >= 3

\* ---------------------------------------------------------------------
\* find_all_matches against find_first_match

\* Regex::findall has just returned or panicked.
FindAllStep == call.function = "none" /\ call'.function = "findall"

\* `all` is what iterating find_first_match over text gives: nothing when
\* find_first_match finds nothing, else its result first, and after a match
\* that ends at j the first match of the search restarted at j + 1.  The
\* slice that panics, if one does, is the last.
IterationOfFind(dfa_, text, all) ==
    LET first == find_first_match(dfa_, text)
        n == Len(all.matches)
    IN  /\ (n = 0) <=> (first.tag = "None")
        /\ n > 0 => all.matches[1] = first
        /\ (all.tag = "Panic") <=> (n > 0 /\ all.matches[n].tag = "Panic")
        /\ \A k \in 1..n :
               LET restarted == FindFirstFrom(dfa_, text, all.matches[k].end + 1)
               IN  IF all.matches[k].tag = "Panic" THEN k = n
                   ELSE IF k < n THEN all.matches[k + 1] = restarted
                   ELSE restarted.tag = "None"

\* C24: find_all is the iteration of find: its list is empty exactly when
\* find returns None, its first element is the slice find returns (the same
\* start and end offsets), and each later element is the first match of the
\* search restarted one past the last index of the match before it.
C24_FindAllIteratesFind ==
    [][FindAllStep =>
           IterationOfFind(compiled[call'.construction], call'.text,
                           call'.result)]_vars

\* findall has returned two matches.
C24_Witness ==
    /\ call.function = "findall"
    /\ call.result.tag = "Ok"
    /\ Len(call.result.matches) >= 2

\* ---------------------------------------------------------------------
\* The rebuild at the end of optimise_dfa

\* optimise_dfa has just replaced the DFA by the rebuilt one.
OptimiseReturnStep == pc = "optimise_dfa" /\ pc' = "idle"

\* No block holds an accepting and a non-accepting state.
NoMixedBlock(accepting_states, partition) ==
    \A s, t \in DOMAIN partition :
        partition[s] = partition[t]
            => (s \in accepting_states <=> t \in accepting_states)

\* minimal is original lifted through partition by a numbering of the blocks
\* that gives each block one id of 0..n-1, no id twice, and id 0 to the block
\* of state 0: a new state is accepting iff the states of its block are, and
\* the new states that have a transition on a symbol are those whose block
\* has one.
LiftedThrough(original, partition, minimal) ==
    LET blocks == {partition[s] : s \in DOMAIN partition}
        ids == 0..(Cardinality(blocks) - 1)
        members(b) == {s \in DOMAIN partition : partition[s] = b}
    IN  \E new_state_map \in [blocks -> ids] :
            /\ \A b1, b2 \in blocks :
                   new_state_map[b1] = new_state_map[b2] => b1 = b2
            /\ 0 \in DOMAIN partition => new_state_map[partition[0]] = 0
            /\ \A b \in blocks :
                   new_state_map[b] \in minimal.accepting_states
                       <=> members(b) \subseteq original.accepting_states
            /\ minimal.accepting_states \subseteq ids
            /\ DOMAIN minimal.transitions =
                   {<<new_state_map[partition[k[1]]], k[2]>> :
                       k \in DOMAIN original.transitions}
            /\ \A key \in DOMAIN minimal.transitions :
                   \E k \in DOMAIN original.transitions :
                       /\ key = <<new_state_map[partition[k[1]]], k[2]>>
                       /\ minimal.transitions[key] =
                              new_state_map[partition[original.transitions[k]]]

\* C25: optimise_dfa preserves the start state and acceptance: no block ever
\* holds both an accepting and a non-accepting state, and the rebuilt DFA is
\* the original lifted through a numbering that gives every block exactly
\* one new id and the block of state 0 the id 0, a new state accepting iff
\* the states of its block are.
C25_RebuildKeepsStartAndAcceptance ==
    /\ [](pc = "optimise_dfa" => NoMixedBlock(dfa.accepting_states, opt.partition))
    /\ [][OptimiseReturnStep =>
              LiftedThrough(dfa, opt.partition, compiled'[construction])]_vars

\* optimise_dfa has returned a DFA of three states or more, one of them
\* accepting and one not.
C25_Witness ==
    /\ pc = "idle"
    /\ \E choice \in DOMAIN compiled :
           /\ Cardinality(DfaStates(compiled[choice])) >= 3
           /\ compiled[choice].accepting_states # {}
           /\ compiled[choice].accepting_states # DfaStates(compiled[choice])

\* ---------------------------------------------------------------------
\* Termination of the compilation

\* A sequence without a repeated element.
NoRepeat(s) == \A i, j \in 1..Len(s) : s[i] = s[j] => i = j

\* No subset waits twice in the worklist of a determiniser.
SubsetWaitsOnce ==
    /\ pc = "nfa_to_dfa" => NoRepeat(det.unmarked_states)
    /\ (pc = "nfa_no_epsilon_to_dfa" /\ det # Dropped) => NoRepeat(det.work_queue)

\* optimise_dfa has as many non-empty blocks as the DFA has states, at most.
BlocksBounded ==
    pc = "optimise_dfa" =>
        Cardinality({i \in 1..Len(opt.partition_list) : opt.partition_list[i] # {}})
            <= Cardinality(DOMAIN opt.partition)

\* The worklist of optimise_dfa grows by one index, together with a split.
EnqueuedWithSplit ==
    (pc = "optimise_dfa" /\ pc' = "optimise_dfa"
        /\ Len(opt'.worklist) > Len(opt.worklist))
    => /\ Len(opt'.worklist) = Len(opt.worklist) + 1
       /\ Len(opt'.partition_list) = Len(opt.partition_list) + 1

\* A worklist loop of the compilation is left only with its worklist empty.
LoopLeftWhenDone ==
    /\ (pc = "nfa_to_dfa" /\ pc' # pc) => NfaToDfaLoopDone
    /\ (pc = "nfa_no_epsilon_to_dfa" /\ det # Dropped /\ pc' # pc)
           => NoEpsilonLoopDone
    /\ (pc = "optimise_dfa" /\ pc' # pc) => OptimiseLoopDone

\* Regex::new is running and is not at the end of a worklist loop.
Busy ==
    /\ Compiling
    /\ ~NfaToDfaLoopDone
    /\ ~NoEpsilonLoopDone
    /\ ~OptimiseLoopDone

\* C26: compilation terminates: a call of Regex::new does not stay for ever
\* before the end of the worklist loop it is in (the subset construction of
\* either engine, which embeds the epsilon-closure loop, and the partition
\* refinement), each loop is left only with its worklist empty, and the call
\* ends; a subset waits at most once, a block index is enqueued only together
\* with a split, and there are no more blocks than DFA states.
C26_CompilationTerminates ==
    /\ [](Compiling => CompileStepExists)
    /\ []<>(~Busy)
    /\ []<>(~Compiling)
    /\ [][LoopLeftWhenDone]_vars
    /\ []SubsetWaitsOnce
    /\ []BlocksBounded
    /\ [][EnqueuedWithSplit]_vars

\* The partition refinement has emptied its worklist after two splits or more.
C26_Witness == OptimiseLoopDone /\ Len(opt.partition_list) >= 4

\* ---------------------------------------------------------------------
\* Termination of the executors

\* The loop of an executor goes from one test to the next.
NextIteration == Executing /\ call'.function = call.function /\ call'.result.tag = "Running"

\* The loop of an executor ends: it returns or panics.
LoopEnds == Executing /\ call'.function = call.function /\ call'.result.tag # "Running"

\* What the whole loop gives for the call.
LoopResult ==
    IF call.function = "find"
    THEN find_first_match(compiled[call.construction], call.text)
    ELSE find_all_matches(compiled[call.construction], call.text)

\* C27: execution terminates: find and find_all finish on every DFA and
\* every text; from one test of the outer loop to the next the start offset
\* strictly increases (by one after a failed attempt, to end + 1 after a
\* match), it never passes the length of the text, and what the loop ends
\* with is the result of the executor.
C27_ExecutionTerminates ==
    /\ []<>(~Executing)
    /\ [][NextIteration => call'.result.start_pos > call.result.start_pos]_vars
    /\ [](Executing => call.result.start_pos <= ByteLen(call.text))
    /\ [][LoopEnds => call'.result = LoopResult]_vars

\* findall has returned after a one-character match and another match.
C27_Witness ==
    /\ call.function = "findall"
    /\ call.result.tag = "Ok"
    /\ Len(call.result.matches) = 2
    /\ call.result.matches[1].start = call.result.matches[1].end

\* ---------------------------------------------------------------------
\* Two compilations of one pattern

\* Two DFAs give the same process answer on every word of at most MaxWordLen
\* characters over the characters either reads.
SameAnswers(d1, d2) ==
    \A word \in DfaWords(d1) \cup DfaWords(d2) : process(d1, word) = process(d2, word)

\* C28: two compilations of the same pattern, with one construction type,
\* leave DFAs that accept the same texts and differ at most in the numbering
\* of the states other than state 0, whatever the order in which the hash
\* maps and hash sets were iterated.
C28_CompilationIsDeterministic ==
    earlier.regex = regex =>
        \A choice \in DOMAIN earlier.compiled \cap DOMAIN compiled :
            /\ SameAnswers(earlier.compiled[choice], compiled[choice])
            /\ Isomorphic(earlier.compiled[choice], compiled[choice])

\* ---------------------------------------------------------------------
\* The numbering of the states of a Thompson NFA

\* The states are 0..accepting_state, the accepting state has no outgoing
\* transition and state 0 has no incoming one.
Numbered(n) ==
    /\ ThompsonStates(n) = 0..n.accepting_state
    /\ \A k \in DOMAIN n.transitions :
           /\ k[1] # n.accepting_state
           /\ 0 \notin n.transitions[k]

\* The transitions of an NFA, one triple for each target, every state
\* moved up by `by`.
ShiftedTriples(n, by) ==
    UNION {{<<k[1] + by, k[2], t + by>> : t \in n.transitions[k]} :
              k \in DOMAIN n.transitions}

\* concatenate, union and apply_kleene_star on numbered operands keep every
\* transition of every operand (no key is overwritten), merge no two states
\* but the two concatenate joins, and build a numbered NFA.
BuildersKeepNumbering(left, right) ==
    LET joined == concatenate(left, right)
        either == union(left, right)
        starred == apply_kleene_star(left)
        size(n) == Cardinality(ThompsonStates(n))
    IN  /\ Numbered(joined)
        /\ ShiftedTriples(joined, 0) =
               ShiftedTriples(left, 0)
                   \cup ShiftedTriples(right, left.accepting_state)
        /\ size(joined) = size(left) + size(right) - 1
        /\ Numbered(either)
        /\ ShiftedTriples(left, 1) \cup ShiftedTriples(right, left.accepting_state + 2)
               \subseteq ShiftedTriples(either, 0)
        /\ size(either) = size(left) + size(right) + 2
        /\ Numbered(starred)
        /\ ShiftedTriples(left, 1) \subseteq ShiftedTriples(starred, 0)
        /\ size(starred) = size(left) + 2

\* The NFAs an NFA is combined with below.
Operands(n) == {create_basic_nfa("a"), create_basic_epsilon_nfa, n}

\* C29: every NFA thompson_construction builds has the states
\* 0..accepting_state, no transition out of its accepting state and none
\* into state 0; and combining it, on either side, with a one-letter NFA,
\* the epsilon NFA or itself by concatenate, union or apply_kleene_star
\* overwrites no transition key, makes no two states collide and gives an
\* NFA numbered in the same way.
C29_ThompsonNumbering ==
    (pc = "nfa_to_dfa" /\ construction = "Thompson") =>
        /\ Numbered(nfa)
        /\ \A other \in Operands(nfa) :
               /\ BuildersKeepNumbering(nfa, other)
               /\ BuildersKeepNumbering(other, nfa)

\* thompson_construction has built the NFA of `ab*|`: a concatenation, a
\* star and a union.
C29_Witness ==
    /\ pc = "nfa_to_dfa"
    /\ construction = "Thompson"
    /\ regex = <<"a", "b", "*", "|">>
    /\ det = NfaToDfaStart(nfa)

\* ---------------------------------------------------------------------
\* No empty match

\* A slice an executor has taken of text: its offsets lie in the text, and
\* when it is returned it holds a character at least.
NonEmptySlice(text, sliced) ==
    /\ 0 <= sliced.start
    /\ sliced.start <= sliced.end
    /\ sliced.end < Len(text)
    /\ sliced.tag = "Some" => Len(sliced.slice) >= 1

\* C30: find and find_all never return an empty substring: every slice
\* text[start..=end] they take has start <= end < length of the text and a
\* returned slice holds one character at least; on the empty text find
\* returns None and find_all the empty list, for a nullable pattern too.
C30_NoEmptyMatch ==
    /\ call.function = "find" =>
           /\ call.result.tag # "None" => NonEmptySlice(call.text, call.result)
           /\ call.text = <<>> => call.result.tag = "None"
    /\ call.function = "findall" =>
           /\ \A k \in 1..Len(call.result.matches) :
                  NonEmptySlice(call.text, call.result.matches[k])
           /\ call.text = <<>> => (call.result.tag = "Ok" /\ call.result.matches = <<>>)

\* find has returned a slice for a Regex whose start state is accepting.
C30_Witness ==
    /\ call.function = "find"
    /\ call.result.tag = "Some"
    /\ pc = "idle"
    /\ 0 \in compiled[call.construction].accepting_states

====
